---------------------------- MODULE Spec2Model ----------------------------
(***************************************************************************)
(* Model of the planar-polygon triangulation engine of                     *)
(* uniformity/src/main.c: the segment intersector, the PSLG store          *)
(* (generate / split / dedup), the splitter fixpoint driver and the        *)
(* ear-attack triangulator.                                                *)
(*                                                                         *)
(* Numbers.  The C code computes on 32-bit floats.  The model computes on  *)
(* exact rationals <<n, d>> (d > 0, lowest terms): on the small integer    *)
(* grids used here every intermediate value is a rational with a small     *)
(* denominator, and every comparison against EPSILON is made exactly       *)
(* (|x| < 1/EpsilonInv), not replaced by a test for zero.                  *)
(*                                                                         *)
(* Indices.  Edge endpoints are the 0-based C indices; the sequences V, E  *)
(* and the triangle lists are 1-based TLA+ sequences, read through At.     *)
(*                                                                         *)
(* Specifications.  Spec: generate_triangulation, one loop round per step. *)
(* SpecOut: the same with an output that already holds triangles.          *)
(* SpecOps: the PSLG operations called freely.  SpecPoly:                  *)
(* triangulate_polyhedron, one face per step.  SpecFail: the same with a   *)
(* failing allocation site.  SpecSeg: one call of intersecting_segments.   *)
(* SpecAlloc: generate_triangulation by steps with one failing allocation. *)
(* SpecCall: single calls of the PSLG operations, NOOP returns included.   *)
(* SpecCap: the same calls with the allocated length of every array.      *)
(***************************************************************************)
EXTENDS Integers, Sequences, FiniteSets, TLC

\* ------------------------------------------------------------------ bounds
\* Input polygons have 0..MaxLen vertices on the grid (0..GridMax)^2, z = 0.
MaxLen == 4
GridMax == 2
\* SpecPoly: polyhedra of at most MaxFaces faces of at most MaxFaceLen vertices.
MaxFaces == 2
MaxFaceLen == 4

\* SpecOps: polygons on the grid (0..GridMax) x (0..OpsRows), then at most
\* MaxOps free operations after generate_pslg.
OpsRows == 1
MaxOps == 2

\* SpecOut: the largest number of triangles the output holds before the call.
MaxHeld == 2

\* SpecFail: the number of vertices of the largest face (one more than the
\* 16 vertices or edges that fit into the first allocation).
BigFaceLen == 16

\* SpecSeg: the factor by which the grid is scaled down for short segments.
SegScale == 2000

\* Spec: cap on the rounds counted for one loop of split_entirely or of
\* attack_all_vertices.
MaxIter == 8

\* ------------------------------------------------------- program constants
\* 1 / EPSILON  (EPSILON is 0.000001)
EpsilonInv == 1000000
BIT_IGNORE == 4
SUCCESS == 0
NOOP == 1
NONFATAL == 2
FATAL == 3
STATUS_TYPE_SHIFT == 24
TRI_INIT_MALLOC_FAIL == 50331648
ADDING_TRI_REALLOC_FAILURE == 50331650
PSLG_INIT_MALLOC_ERROR == 50331651
PSLG_VERTEX_MALLOC_ERROR == 50331652
PSLG_EDGE_MALLOC_ERROR == 50331653
PSLG_TRIANGULATION_INIT_MALLOC_ERROR == 50331656
PSLG_EDGE_SPLIT_VERTEX_REALLOC_ERROR == 50331654
PSLG_EDGE_SPLIT_EDGE_REALLOC_ERROR == 50331655
PSLG_ATTACK_TEMP_EDGES_MALLOC_ERROR == 50331657
PSLG_ATTACK_EDGE_REALLOCATION_ERROR == 50331658
TRIANGULATE_POLYHEDRON_BATCH_TRIANGULATIONS_MALLOC_ERROR == 50331659
DEDUP_PSLG_VERTEX_REALLOC_ERROR == 50331670
DEDUP_PSLG_EDGES_REALLOC_ERROR == 50331671

\* ------------------------------------------------------------ status codes
RECURSIVE Pow2Rec(_)
Pow2Rec(k) == IF k = 0 THEN 1 ELSE 2 * Pow2Rec(k - 1)

\* (code & 0xFF000000) >> 24 on a 32-bit unsigned value
STATUS_TYPE(code) == (code \div Pow2Rec(STATUS_TYPE_SHIFT)) % 256

IS_AN_ERROR(x) == (STATUS_TYPE(x) = FATAL) \/ (STATUS_TYPE(x) = NONFATAL)

\* BIT_SIZE = (1 << BIT_IGNORE) - 1 ; BIT_ALIGN(x) = max((x + BIT_SIZE) & ~BIT_SIZE, 1)
BIT_SIZE == Pow2Rec(BIT_IGNORE) - 1

BIT_ALIGN(x) ==
  LET r == ((x + BIT_SIZE) \div (BIT_SIZE + 1)) * (BIT_SIZE + 1)
  IN  IF r > 1 THEN r ELSE 1

REALIGN(a, b) == BIT_ALIGN(a) # BIT_ALIGN(b)

\* ------------------------------------------------------------- evaluation
\* Bind(v, F) is F(v) with v evaluated once (a C local variable): TLC would
\* otherwise evaluate the expression v again at every use inside F.
Bind(v, F(_)) == CHOOSE y \in {F(x) : x \in {v}} : TRUE

\* --------------------------------------------------------------- rationals
Abs(n) == IF n < 0 THEN -n ELSE n

RECURSIVE GCD(_, _)
GCD(a, b) == IF b = 0 THEN a ELSE GCD(b, a % b)

\* the rational n/d in lowest terms with a positive denominator (d # 0)
Rat(n, d) ==
  IF d = 1 THEN <<n, 1>>
  ELSE LET g == GCD(Abs(n), Abs(d))
           s == IF d < 0 THEN -1 ELSE 1
       IN  <<(s * n) \div g, (s * d) \div g>>

RInt(n) == <<n, 1>>
RAdd(p, q) ==
  IF p[2] = q[2] THEN Rat(p[1] + q[1], p[2])
  ELSE LET g == GCD(p[2], q[2])
       IN  Rat(p[1] * (q[2] \div g) + q[1] * (p[2] \div g), (p[2] \div g) * q[2])
RNeg(p) == <<-p[1], p[2]>>
RSub(p, q) == RAdd(p, RNeg(q))
RMul(p, q) == Rat(p[1] * q[1], p[2] * q[2])
RDiv(p, q) == Rat(p[1] * q[2], p[2] * q[1])
RLt(p, q) == p[1] * q[2] < q[1] * p[2]
RAbs(p) == <<Abs(p[1]), p[2]>>

\* fabs(x) < EPSILON :  |n| / d < 1 / EpsilonInv, decided without overflow
FabsLtEps(p) ==
  \/ p[1] = 0
  \/ EpsilonInv <= ((p[2] - 1) \div Abs(p[1]))

\* sqrt(s) < EPSILON for s >= 0 :  n / d < 1 / EpsilonInv^2
SqrtLtEps(s) ==
  \/ s[1] = 0
  \/ EpsilonInv <= (((s[2] - 1) \div s[1]) \div EpsilonInv)

\* ----------------------------------------------------------- vector kernel
\* Vec3 is <<x, y, z>> of rationals.
add_vec3(a, b) == <<RAdd(a[1], b[1]), RAdd(a[2], b[2]), RAdd(a[3], b[3])>>

multiply_vec3(a, scalar) ==
  <<RMul(a[1], scalar), RMul(a[2], scalar), RMul(a[3], scalar)>>

subtract_vec3(a, b) == add_vec3(a, multiply_vec3(b, RInt(-1)))

\* variant of lerp_vec3 that starts from b
lerp_vec3_from_b(a, b, t) == add_vec3(b, multiply_vec3(subtract_vec3(a, b), t))

lerp_vec3(a, b, t) == add_vec3(a, multiply_vec3(subtract_vec3(b, a), t))

\* magnitude_vec3 squared (the square root is taken inside SqrtLtEps)
MagnitudeSq(a) ==
  RAdd(RAdd(RMul(a[1], a[1]), RMul(a[2], a[2])), RMul(a[3], a[3]))

equal_vec3(a, b) == SqrtLtEps(MagnitudeSq(subtract_vec3(a, b)))

\* ------------------------------------------------------ segment intersector
\* intersecting_segments(a, b, c, d, &out): [hit |-> 0 or 1, out |-> Vec3].
\* When 0 is returned the C code leaves *out untouched; the model returns a.
IsPointXY(p, q) == FabsLtEps(RSub(p[1], q[1])) /\ FabsLtEps(RSub(p[2], q[2]))

Miss(a) == [hit |-> 0, out |-> a]

\* the branch "vertical > 0": one of the two segments is a point
intersecting_point(a, b, c, d) ==
  LET second == IsPointXY(c, d)
      \* the second "if" overwrites what the first one assigned
      tx0 == IF second THEN RSub(c[1], a[1]) ELSE RSub(a[1], c[1])
      ty0 == IF second THEN RSub(c[2], a[2]) ELSE RSub(a[2], c[2])
      denomx == IF second THEN RSub(b[1], a[1]) ELSE RSub(d[1], c[1])
      \* line 1831: denomy = b.x - a.y
      denomy == IF second THEN RSub(b[1], a[2]) ELSE RSub(d[2], c[2])
      vertical == IF second THEN 2 ELSE 1
  IN  IF FabsLtEps(denomx) THEN Miss(a)
      ELSE IF FabsLtEps(denomy) THEN Miss(a)
      ELSE LET tx == RDiv(tx0, denomx)
               ty == RDiv(ty0, denomy)
           IN  IF RLt(tx, RInt(0)) \/ RLt(RInt(1), tx) THEN Miss(a)
               ELSE IF RLt(ty, RInt(0)) \/ RLt(RInt(1), ty) THEN Miss(a)
               ELSE IF ~FabsLtEps(RSub(tx, ty)) THEN Miss(a)
               ELSE LET t_avg == RDiv(RAdd(tx, ty), RInt(2))
                    IN  IF vertical = 1
                        THEN [hit |-> 1, out |-> lerp_vec3(c, d, t_avg)]
                        ELSE [hit |-> 1, out |-> lerp_vec3(a, b, t_avg)]

\* variant of the general branch that never reports a crossing
intersecting_general_never(a, b, c, d) == Miss(a)

\* the general branch (lines 1864-1884)
intersecting_general(a, b, c, d) ==
  LET denom == RSub(RMul(RSub(a[1], b[1]), RSub(c[2], d[2])),
                    RMul(RSub(a[2], b[2]), RSub(c[1], d[1])))
  IN  IF FabsLtEps(denom) THEN Miss(a)
      ELSE LET t == RDiv(RSub(RMul(RSub(a[1], c[1]), RSub(c[2], d[2])),
                              RMul(RSub(a[2], c[2]), RSub(c[1], d[1]))), denom)
               u == RNeg(RDiv(RSub(RMul(RSub(a[1], b[1]), RSub(a[2], c[2])),
                                   RMul(RSub(a[2], b[2]), RSub(a[1], c[1]))), denom))
           IN  IF RLt(t, RInt(0)) \/ RLt(RInt(1), t) THEN Miss(a)
               ELSE IF RLt(u, RInt(0)) \/ RLt(RInt(1), u) THEN Miss(a)
               ELSE LET v1 == lerp_vec3(a, b, t)
                        v2 == lerp_vec3(c, d, u)
                    IN  IF FabsLtEps(RSub(v1[3], v2[3]))
                        THEN [hit |-> 1, out |-> lerp_vec3(v1, v2, <<1, 2>>)]
                        ELSE Miss(a)

\* variant of intersecting_segments that reports two point segments as crossing
intersecting_segments_points_hit(a, b, c, d) ==
  IF IsPointXY(a, b) /\ IsPointXY(c, d) THEN [hit |-> 1, out |-> a]
  ELSE IF IsPointXY(a, b) \/ IsPointXY(c, d) THEN intersecting_point(a, b, c, d)
  ELSE intersecting_general(a, b, c, d)

intersecting_segments(a, b, c, d) ==
  IF IsPointXY(a, b) /\ IsPointXY(c, d) THEN Miss(a)
  ELSE IF IsPointXY(a, b) \/ IsPointXY(c, d) THEN intersecting_point(a, b, c, d)
  ELSE intersecting_general(a, b, c, d)

\* ---------------------------------------------------------------- PSLG store
\* A PSLG is [V |-> sequence of Vec3, E |-> sequence of <<u, v>>] with 0-based
\* endpoints.  Every mutating operation returns [result, pslg].  The parameter
\* f is the set of allocation sites that fail in this call ({} = none).
At(s, i) == s[i + 1]

Res(r, g) == [result |-> r, pslg |-> g]

generate_pslg(pr) ==
  LET n == Len(pr.vertices)
  IN  [V |-> [i \in 1..n |-> pr.vertices[i]],
       E |-> [i \in 1..n |-> <<i - 1, i % n>>]]

\* variant of RemapEndpoint that redirects v2 to v1 but leaves the indices
\* above v2 where they were
RemapEndpointNoShift(x, v1, v2) == IF x = v2 THEN v1 ELSE x

\* the edge rewrite loop of dedup_pslg_a_vertex (lines 1970-1983), one endpoint
RemapEndpoint(x, v1, v2) ==
  LET y == IF x = v2 THEN v1 ELSE x
  IN  IF y > v2 THEN y - 1 ELSE y

\* the three early returns of dedup_pslg_a_vertex (lines 1943-1956) passed
dedup_vertex_applies(g, v1, v2) ==
  /\ v1 # v2
  /\ ~(v1 > v2)
  /\ equal_vec3(At(g.V, v1), At(g.V, v2))

dedup_pslg_a_vertex(g, v1, v2, f) ==
  IF ~dedup_vertex_applies(g, v1, v2) THEN Res(NOOP, g)
  ELSE LET vc == Len(g.V)
           \* vertices[i] = vertices[i + 1] for i in v2 .. vertex_count - 2
           shifted == [i \in 1..vc |->
                         IF i - 1 >= v2 /\ i - 1 < vc - 1 THEN g.V[i + 1] ELSE g.V[i]]
       IN  IF REALIGN(vc, vc - 1) /\ "dedup_vertex" \in f
           THEN Res(DEDUP_PSLG_VERTEX_REALLOC_ERROR, [g EXCEPT !.V = shifted])
           ELSE Res(SUCCESS,
                    [V |-> SubSeq(shifted, 1, vc - 1),
                     E |-> [k \in 1..Len(g.E) |->
                              <<RemapEndpoint(g.E[k][1], v1, v2),
                                RemapEndpoint(g.E[k][2], v1, v2)>>]])

\* first pair (i, j), in the order of the two nested loops, whose call to
\* Op(g, i, j) does not return NOOP; the loops return that call's outcome
FirstPair(n, Hit(_, _)) ==
  LET First(hits) ==
        IF hits = {} THEN <<>>
        ELSE CHOOSE p \in hits :
               \A q \in hits : p[1] < q[1] \/ (p[1] = q[1] /\ p[2] <= q[2])
  IN  Bind({p \in (0..n - 1) \X (0..n - 1) : Hit(p[1], p[2])}, First)

dedup_pslg_one_vertex(g, f) ==
  LET Hit(i, j) == dedup_vertex_applies(g, i, j)
      Call(p) == IF p = <<>> THEN Res(NOOP, g)
                 ELSE dedup_pslg_a_vertex(g, p[1], p[2], f)
  IN  Bind(FirstPair(Len(g.V), Hit), Call)

\* variant of dedup_pslg_vertex that merges one pair of vertices and stops
dedup_pslg_vertex_once(g, f) ==
  LET Once(r) == IF IS_AN_ERROR(r.result) THEN r ELSE Res(NOOP, r.pslg)
  IN  Bind(dedup_pslg_one_vertex(g, f), Once)

RECURSIVE dedup_pslg_vertex(_, _)
dedup_pslg_vertex(g, f) ==
  LET Loop(r) == IF r.result = NOOP THEN r
                 ELSE IF IS_AN_ERROR(r.result) THEN r
                 ELSE dedup_pslg_vertex(r.pslg, f)
  IN  Bind(dedup_pslg_one_vertex(g, f), Loop)

\* the comparison of dedup_pslg_a_edge (lines 2044-2060): on vertex positions
SameEdge(g, e1, e2) ==
  LET a == At(g.E, e1)
      b == At(g.E, e2)
  IN  \/ /\ equal_vec3(At(g.V, a[1]), At(g.V, b[1]))
         /\ equal_vec3(At(g.V, a[2]), At(g.V, b[2]))
      \/ /\ equal_vec3(At(g.V, a[1]), At(g.V, b[2]))
         /\ equal_vec3(At(g.V, a[2]), At(g.V, b[1]))

\* the early returns of dedup_pslg_a_edge (lines 2035-2066) passed
dedup_edge_applies(g, e1, e2) ==
  /\ ~(e1 > e2)
  /\ e1 # e2
  /\ SameEdge(g, e1, e2)

dedup_pslg_a_edge(g, e1, e2, f) ==
  IF ~dedup_edge_applies(g, e1, e2) THEN Res(NOOP, g)
  ELSE LET ec == Len(g.E)
           shifted == [i \in 1..ec |->
                         IF i - 1 >= e2 /\ i - 1 < ec - 1 THEN g.E[i + 1] ELSE g.E[i]]
       IN  IF REALIGN(ec, ec - 1) /\ "dedup_edge" \in f
           THEN Res(DEDUP_PSLG_EDGES_REALLOC_ERROR, [g EXCEPT !.E = shifted])
           ELSE Res(SUCCESS, [g EXCEPT !.E = SubSeq(shifted, 1, ec - 1)])

dedup_pslg_one_edge(g, f) ==
  LET Hit(i, j) == dedup_edge_applies(g, i, j)
      Call(p) == IF p = <<>> THEN Res(NOOP, g)
                 ELSE dedup_pslg_a_edge(g, p[1], p[2], f)
  IN  Bind(FirstPair(Len(g.E), Hit), Call)

RECURSIVE dedup_pslg_edge(_, _)
dedup_pslg_edge(g, f) ==
  LET Loop(r) == IF r.result = NOOP THEN r
                 ELSE IF IS_AN_ERROR(r.result) THEN r
                 ELSE dedup_pslg_edge(r.pslg, f)
  IN  Bind(dedup_pslg_one_edge(g, f), Loop)

\* variant of dedup_pslg that reports success and merges nothing
dedup_pslg_skipped(g, f) == Res(SUCCESS, g)

\* variant of dedup_pslg that reports success whatever the two steps report
dedup_pslg_status_lost(g, f) ==
  Res(SUCCESS, dedup_pslg_edge(dedup_pslg_vertex(g, f).pslg, f).pslg)

dedup_pslg(g, f) ==
  LET AfterEdge(re) == IF IS_AN_ERROR(re.result) THEN re ELSE Res(SUCCESS, re.pslg)
      AfterVertex(rv) == IF IS_AN_ERROR(rv.result) THEN rv
                         ELSE Bind(dedup_pslg_edge(rv.pslg, f), AfterEdge)
  IN  Bind(dedup_pslg_vertex(g, f), AfterVertex)

\* variant of SharesIndex that finds no shared index
SharesIndex_never(g, edge1, edge2) == FALSE

SharesIndex(g, edge1, edge2) ==
  LET a == At(g.E, edge1)
      b == At(g.E, edge2)
  IN  a[1] = b[1] \/ a[1] = b[2] \/ a[2] = b[1] \/ a[2] = b[2]

\* variant of split_edges that rewrites the two split edges before it appends
\* the two new ones, so that the new edges start at the new vertex
split_edges_rewrite_first(E, edge1, edge2, vc) ==
  LET E1 == [E EXCEPT ![edge1 + 1] = <<E[edge1 + 1][1], vc>>]
      E2 == [E1 EXCEPT ![edge2 + 1] = <<E1[edge2 + 1][1], vc>>]
  IN  E2 \o << <<E2[edge1 + 1][2], vc>>, <<E2[edge2 + 1][2], vc>> >>

\* the edge assignments of splitPSLG (lines 2191-2196), in order: the two new
\* edges are written from the old second endpoints, then edge1 and edge2 get
\* the new vertex as their second endpoint
split_edges(E, edge1, edge2, vc) ==
  LET E1 == E \o << <<E[edge1 + 1][2], vc>>, <<E[edge2 + 1][2], vc>> >>
      E2 == [E1 EXCEPT ![edge1 + 1] = <<E1[edge1 + 1][1], vc>>]
      E3 == [E2 EXCEPT ![edge2 + 1] = <<E2[edge2 + 1][1], vc>>]
  IN  E3

splitPSLG(g, edge1, edge2, f) ==
  IF SharesIndex(g, edge1, edge2) THEN Res(NOOP, g)
  ELSE LET a == At(g.E, edge1)
           b == At(g.E, edge2)
           x == intersecting_segments(At(g.V, a[1]), At(g.V, a[2]),
                                      At(g.V, b[1]), At(g.V, b[2]))
           vc == Len(g.V)
           ec == Len(g.E)
       IN  IF x.hit = 0 THEN Res(NOOP, g)
           ELSE IF REALIGN(vc, vc + 1) /\ "split_vertex" \in f
                THEN Res(PSLG_EDGE_SPLIT_VERTEX_REALLOC_ERROR, g)
           ELSE IF REALIGN(ec, ec + 2) /\ "split_edge" \in f
                THEN Res(PSLG_EDGE_SPLIT_EDGE_REALLOC_ERROR, g)
           ELSE Res(SUCCESS, [V |-> Append(g.V, x.out),
                              E |-> split_edges(g.E, edge1, edge2, vc)])

remove_single_edge(g, f) ==
  LET Hit(i, j) == splitPSLG(g, i, j, f).result # NOOP
      Call(p) == IF p = <<>> THEN Res(NOOP, g) ELSE splitPSLG(g, p[1], p[2], f)
  IN  Bind(FirstPair(Len(g.E), Hit), Call)

\* one pass of the loop of split_entirely (lines 2229-2251):
\* [result, pslg, exit] with exit one of "noop" (no pair splits: success),
\* "error", "guard" (both counts unchanged after split + dedup: return) and
\* "loop" (go round again)
split_entirely_pass(g, f) ==
  LET ne == Len(g.E)
      nv == Len(g.V)
      AfterDedup(d) ==
        IF IS_AN_ERROR(d.result)
        THEN [result |-> d.result, pslg |-> d.pslg, exit |-> "error"]
        ELSE IF Len(d.pslg.E) = ne /\ Len(d.pslg.V) = nv
             THEN [result |-> d.result, pslg |-> d.pslg, exit |-> "guard"]
             ELSE [result |-> d.result, pslg |-> d.pslg, exit |-> "loop"]
      AfterRemove(r) ==
        IF r.result = NOOP
        THEN [result |-> SUCCESS, pslg |-> r.pslg, exit |-> "noop"]
        ELSE IF IS_AN_ERROR(r.result)
             THEN [result |-> r.result, pslg |-> r.pslg, exit |-> "error"]
             ELSE Bind(dedup_pslg(r.pslg, f), AfterDedup)
  IN  Bind(remove_single_edge(g, f), AfterRemove)

\* ------------------------------------------------------ ear-attack triangulator
\* A triangle is [v |-> <<Vec3, Vec3, Vec3>>, fd |-> FaceData]; a Triangulation
\* is the sequence of its triangles.
add_triangle(tri, triangle, f) ==
  IF REALIGN(Len(tri), Len(tri) + 1) /\ "add_triangle" \in f
  THEN [result |-> ADDING_TRI_REALLOC_FAILURE, tri |-> tri]
  ELSE [result |-> SUCCESS, tri |-> Append(tri, triangle)]

\* variant of Incident whose loop over the edges starts at the second edge
Incident_from_second(g, vertex_idx) ==
  {i \in 1..Len(g.E) - 1 : At(g.E, i)[1] = vertex_idx \/ At(g.E, i)[2] = vertex_idx}

\* variant of Incident that only looks at the first endpoint of an edge
Incident_first_endpoint(g, vertex_idx) ==
  {i \in 0..Len(g.E) - 1 : At(g.E, i)[1] = vertex_idx}

Incident(g, vertex_idx) ==
  {i \in 0..Len(g.E) - 1 : At(g.E, i)[1] = vertex_idx \/ At(g.E, i)[2] = vertex_idx}

SetMin(S) == CHOOSE x \in S : \A y \in S : x <= y
SetMax(S) == CHOOSE x \in S : \A y \in S : x >= y

\* variant of attack_triangle that emits the attacked vertex first
attack_triangle_rotated(g, v1, v2, v3, fd) ==
  [v |-> <<At(g.V, v3), At(g.V, v1), At(g.V, v2)>>, fd |-> fd]

\* variant of attack_triangle that emits the attacked vertex second
attack_triangle_swapped(g, v1, v2, v3, fd) ==
  [v |-> <<At(g.V, v1), At(g.V, v3), At(g.V, v2)>>, fd |-> fd]

\* the triangle attack_vertex emits (lines 2331-2335)
attack_triangle(g, v1, v2, v3, fd) ==
  [v |-> <<At(g.V, v1), At(g.V, v2), At(g.V, v3)>>, fd |-> fd]

\* variant of attack_edges that leaves out e2 only
attack_edges_keep_e1(E, e1, e2, v1, v2, e3_exists) ==
  LET kept == SelectSeq([i \in 1..Len(E) |-> <<i - 1, E[i]>>],
                        LAMBDA x : x[1] # e2)
  IN  [i \in 1..Len(kept) |-> kept[i][2]]
        \o (IF e3_exists THEN <<>> ELSE << <<v1, v2>> >>)

\* variant of attack_edges that leaves out e1 only
attack_edges_keep_e2(E, e1, e2, v1, v2, e3_exists) ==
  LET kept == SelectSeq([i \in 1..Len(E) |-> <<i - 1, E[i]>>],
                        LAMBDA x : x[1] # e1)
  IN  [i \in 1..Len(kept) |-> kept[i][2]]
        \o (IF e3_exists THEN <<>> ELSE << <<v1, v2>> >>)

\* the edge list attack_vertex builds in temp (lines 2359-2377): every edge
\* but e1 and e2, in order, then (v1, v2) unless such an edge exists
attack_edges(E, e1, e2, v1, v2, e3_exists) ==
  LET kept == SelectSeq([i \in 1..Len(E) |-> <<i - 1, E[i]>>],
                        LAMBDA x : x[1] # e1 /\ x[1] # e2)
  IN  [i \in 1..Len(kept) |-> kept[i][2]]
        \o (IF e3_exists THEN <<>> ELSE << <<v1, v2>> >>)

\* attack_vertex: [result, pslg, tri].  malloc(0) may return a null pointer:
\* "malloc0_null" \in f selects that outcome for the temporary edge array.
attack_vertex(g, tri, fd, vertex_idx, f) ==
  LET inc == Incident(g, vertex_idx)
      Out(r, gg, tt) == [result |-> r, pslg |-> gg, tri |-> tt]
  IN  IF Cardinality(inc) # 2 THEN Out(NOOP, g, tri)
      ELSE
        LET e1 == SetMin(inc)
            e2 == SetMax(inc)
            ec == Len(g.E)
            v1 == IF At(g.E, e1)[1] = vertex_idx THEN At(g.E, e1)[2] ELSE At(g.E, e1)[1]
            v2 == IF At(g.E, e2)[1] = vertex_idx THEN At(g.E, e2)[2] ELSE At(g.E, e2)[1]
            v3 == IF At(g.E, e2)[1] = vertex_idx THEN At(g.E, e2)[1] ELSE At(g.E, e2)[2]
            tr == attack_triangle(g, v1, v2, v3, fd)
            added == add_triangle(tri, tr, f)
            e3_exists == \E i \in 0..ec - 1 :
                           \/ At(g.E, i)[1] = v1 /\ At(g.E, i)[2] = v2
                           \/ At(g.E, i)[1] = v2 /\ At(g.E, i)[2] = v1
            ecount == IF e3_exists THEN ec - 2 ELSE ec - 1
            temp == attack_edges(g.E, e1, e2, v1, v2, e3_exists)
        IN  IF IS_AN_ERROR(added.result) THEN Out(added.result, g, added.tri)
            ELSE IF "attack_temp" \in f \/ (ecount = 0 /\ "malloc0_null" \in f)
                 THEN Out(PSLG_ATTACK_TEMP_EDGES_MALLOC_ERROR, g, added.tri)
            ELSE IF REALIGN(ec, ecount) /\ "attack_edge" \in f
                 THEN Out(PSLG_ATTACK_EDGE_REALLOCATION_ERROR, g, added.tri)
            ELSE Out(SUCCESS, [g EXCEPT !.E = SubSeq(temp, 1, ecount)], added.tri)

\* attack_single_vertex: the first index whose attack does not return NOOP
attack_single_vertex(g, tri, fd, f) ==
  LET Call(hits) == IF hits = {} THEN [result |-> NOOP, pslg |-> g, tri |-> tri]
                    ELSE attack_vertex(g, tri, fd, SetMin(hits), f)
  IN  Bind({i \in 0..Len(g.V) - 1 : attack_vertex(g, tri, fd, i, f).result # NOOP},
           Call)

\* ------------------------------------------------------------------- inputs
GridPoints ==
  {<<RInt(x), RInt(y), RInt(0)>> : x \in 0..GridMax, y \in 0..GridMax}

FaceDatas == {"fd"}

Polygons ==
  UNION {[vertices : [1..n -> GridPoints], fd : FaceDatas] : n \in 0..MaxLen}

\* inputs given by name: the arrow pentagon
ArrowPentagon ==
  [vertices |-> << <<RInt(0), RInt(0), RInt(0)>>, <<RInt(2), RInt(0), RInt(0)>>,
                   <<RInt(2), RInt(2), RInt(0)>>, <<RInt(1), RInt(1), RInt(0)>>,
                   <<RInt(0), RInt(2), RInt(0)>> >>,
   fd |-> "fd"]

NamedPolygons == {ArrowPentagon}

OpsGridPoints ==
  {<<RInt(x), RInt(y), RInt(0)>> : x \in 0..GridMax, y \in 0..OpsRows}

OpsPolygons ==
  UNION {[vertices : [1..n -> OpsGridPoints], fd : FaceDatas] : n \in 0..MaxLen}

NoPolyhedron == [vertices |-> <<>>, faces |-> <<>>]

NoFail == {}

\* no call of intersecting_segments is under way
NoSegments == [a |-> <<>>, b |-> <<>>, c |-> <<>>, d |-> <<>>, ret |-> -1, out |-> <<>>]
EmptyPslg == [V |-> <<>>, E |-> <<>>]
NoOp == [op |-> "none", a |-> -1, b |-> -1, exit |-> "none"]
\* nothing allocated yet: no array has a length, no allocation event happened
NoAlloc == [V |-> 0, E |-> 0, T |-> 0, ev |-> <<>>]

\* -------------------------------------------------------------------- state
VARIABLES
  poly,    \* the PolygonRaw handed to generate_triangulation
  pslg,    \* the PSLG built from it
  tri,     \* pslgtri->triangulation, the per-face triangle list
  out,     \* the caller's Triangulation written by generate_triangulation
  pc,      \* position in generate_triangulation / "ops" for free operations
  result,  \* *result, the status last written
  last,    \* the operation that produced this state, with its arguments
  ops,     \* number of state-changing free operations applied (SpecOps)
  polyhedron, \* the Polyhedron handed to triangulate_polyhedron (SpecPoly)
  face,    \* the loop index i of triangulate_polyhedron
  tris,    \* tris[0 .. face - 1]; the entries from face on are still NULL
  iter,    \* rounds completed by the loop of split_entirely / attack_all_vertices
  fail,    \* the allocation sites whose allocation fails in this run
  isect,   \* a call of intersecting_segments: arguments, return value, *out
  cap      \* the allocated lengths of V, E and the triangle array (SpecCap)

vars == <<poly, pslg, tri, out, pc, result, last, ops, polyhedron, face, tris,
          iter, fail, isect, cap>>

polyvars == <<polyhedron, face, tris>>

opsvars == <<iter, fail>>

segvars == <<isect>>

allocvars == <<cap>>

InitWith(inputs) ==
  /\ poly \in inputs
  /\ pslg = EmptyPslg
  /\ tri = <<>>
  /\ out = <<>>
  /\ pc = "start"
  /\ result = SUCCESS
  /\ last = NoOp
  /\ ops = 0
  /\ polyhedron = NoPolyhedron
  /\ face = 0
  /\ tris = <<>>
  /\ iter = 0
  /\ cap = NoAlloc
  /\ fail = NoFail
  /\ isect = NoSegments

Init == InitWith(Polygons \cup NamedPolygons)

\* ------------------------------------------- generate_triangulation, by steps
\* PSLG *pslg = generate_pslg(result, pr);
\* *result after generate_pslg: its three mallocs, in the order of the code
generate_pslg_status(pr, f) ==
  IF "pslg_init" \in f THEN PSLG_INIT_MALLOC_ERROR
  ELSE IF "pslg_vertex" \in f THEN PSLG_VERTEX_MALLOC_ERROR
  ELSE IF "pslg_edge" \in f THEN PSLG_EDGE_MALLOC_ERROR
  ELSE SUCCESS

\* *result after create_pslg_triangulation: the malloc of the PSLGTriangulation,
\* then the malloc of empty_triangulation; on either failure it returns null
create_pslg_triangulation_status(f) ==
  IF "pslgtri_init" \in f THEN PSLG_TRIANGULATION_INIT_MALLOC_ERROR
  ELSE IF "tri_init" \in f THEN TRI_INIT_MALLOC_FAIL
  ELSE SUCCESS

\* the triangles of src copied before a call of add_triangle in the copy loop
\* fails to reallocate: the first count at which the caller's array has to grow
copy_stops(dst, src, f) ==
  IF "copy_triangle" \in f
  THEN {k \in 0..(Len(src) - 1) : REALIGN(Len(dst) + k, Len(dst) + k + 1)}
  ELSE {}

GeneratePslg ==
  /\ pc = "start"
  /\ \E st \in {generate_pslg_status(poly, fail)} :
       /\ result' = st
       /\ pslg' = IF IS_AN_ERROR(st) THEN EmptyPslg ELSE generate_pslg(poly)
       /\ pc' = IF IS_AN_ERROR(st) THEN "failed" ELSE "split"
       /\ last' = [NoOp EXCEPT !.op = "generate_pslg",
                               !.exit = IF IS_AN_ERROR(st) THEN "error" ELSE "none"]
  /\ iter' = 0
  /\ UNCHANGED <<poly, tri, out, ops, fail>>
  /\ UNCHANGED polyvars
  /\ UNCHANGED segvars
  /\ UNCHANGED allocvars

\* split_entirely(result, pslg): one pass of its loop
SplitEntirelyPass ==
  /\ pc = "split"
  /\ iter < MaxIter
  /\ \E r \in {split_entirely_pass(pslg, fail)} :
         /\ pslg' = r.pslg
         /\ result' = r.result
         /\ pc' = IF r.exit = "loop" THEN "split"
                  ELSE IF IS_AN_ERROR(r.result) THEN "failed" ELSE "create"
         /\ last' = [NoOp EXCEPT !.op = "split_entirely", !.exit = r.exit]
  /\ iter' = iter + 1
  /\ UNCHANGED <<poly, tri, out, ops, fail>>
  /\ UNCHANGED polyvars
  /\ UNCHANGED segvars
  /\ UNCHANGED allocvars

\* create_pslg_triangulation(result, pslg)
\* create_pslg_triangulation(result, pslg); when it fails pslgtri is null and
\* the cleanup of line 2466 reads pslgtri->triangulation: the read of address 0
\* either ends the process or yields a value that is freed before the return
CreatePslgTriangulation ==
  /\ pc = "create"
  /\ \E st \in {create_pslg_triangulation_status(fail)} :
       IF IS_AN_ERROR(st)
       THEN /\ tri' = tri
            /\ result' = st
            /\ pc' \in {"crashed", "failed"}
            /\ last' = [NoOp EXCEPT !.op = "create_pslg_triangulation",
                                    !.exit = "null_deref"]
       ELSE /\ tri' = <<>>
            /\ result' = SUCCESS
            /\ pc' = "attack"
            /\ last' = [NoOp EXCEPT !.op = "create_pslg_triangulation"]
  /\ iter' = 0
  /\ UNCHANGED <<poly, pslg, out, ops, fail>>
  /\ UNCHANGED polyvars
  /\ UNCHANGED segvars
  /\ UNCHANGED allocvars

\* attack_all_vertices(result, pslgtri): one pass of its loop
AttackAllPass ==
  /\ pc = "attack"
  /\ iter < MaxIter
  /\ \E z \in {NoFail, {"malloc0_null"}} :
       \E r \in {attack_single_vertex(pslg, tri, poly.fd, fail \cup z)} :
           /\ pslg' = r.pslg
           /\ tri' = r.tri
           /\ result' = IF r.result = NOOP THEN SUCCESS ELSE r.result
           /\ pc' = IF r.result = NOOP THEN "copy"
                    ELSE IF IS_AN_ERROR(r.result) THEN "failed" ELSE "attack"
           /\ last' = [NoOp EXCEPT !.op = "attack_all_vertices",
                                   !.exit = IF r.result = NOOP THEN "noop"
                                            ELSE IF IS_AN_ERROR(r.result) THEN "error"
                                            ELSE "loop"]
  /\ iter' = iter + 1
  /\ UNCHANGED <<poly, out, ops, fail>>
  /\ UNCHANGED polyvars
  /\ UNCHANGED segvars
  /\ UNCHANGED allocvars

\* the copy loop of lines 2479-2488 and the assignment to tri->triangle_count
copy_out(dst, src, f) ==
  LET all == dst \o src
  IN  SubSeq(all, 1, Len(src))

CopyOut ==
  /\ pc = "copy"
  /\ \E s \in {copy_stops(out, tri, fail)} :
       IF s = {}
       THEN /\ out' = copy_out(out, tri, fail)
            /\ result' = SUCCESS
            /\ pc' = "done"
            /\ last' = [NoOp EXCEPT !.op = "copy"]
       ELSE /\ out' = out \o SubSeq(tri, 1, SetMin(s))
            /\ result' = ADDING_TRI_REALLOC_FAILURE
            /\ pc' = "failed"
            /\ last' = [NoOp EXCEPT !.op = "copy", !.exit = "error"]
  /\ UNCHANGED <<poly, pslg, tri, ops, iter, fail>>
  /\ UNCHANGED polyvars
  /\ UNCHANGED segvars
  /\ UNCHANGED allocvars

Next ==
  \/ GeneratePslg
  \/ SplitEntirelyPass
  \/ CreatePslgTriangulation
  \/ AttackAllPass
  \/ CopyOut

Spec == Init /\ [][Next]_vars

\* SpecOut: generate_triangulation is handed a Triangulation that already
\* holds up to MaxHeld triangles.
HeldTriangle ==
  [v |-> << <<RInt(5), RInt(5), RInt(0)>>, <<RInt(6), RInt(5), RInt(0)>>,
            <<RInt(5), RInt(6), RInt(0)>> >>,
   fd |-> "held"]

Held == {[i \in 1..k |-> HeldTriangle] : k \in 0..MaxHeld}

InitOut ==
  /\ poly \in OpsPolygons
  /\ out \in Held
  /\ pslg = EmptyPslg
  /\ tri = <<>>
  /\ pc = "start"
  /\ result = SUCCESS
  /\ last = NoOp
  /\ ops = 0
  /\ polyhedron = NoPolyhedron
  /\ face = 0
  /\ tris = <<>>
  /\ iter = 0
  /\ cap = NoAlloc
  /\ fail = NoFail
  /\ isect = NoSegments

SpecOut == InitOut /\ [][Next]_vars

\* ------------------------------------------------------------ free operations
\* SpecOps: after generate_pslg (and an empty per-face triangulation) any
\* PSLG-mutating function is called with any arguments, in any order.  A call
\* that returns NOOP changes nothing but *result and is a stuttering step.
GenerateOps ==
  /\ pc = "start"
  /\ pslg' = generate_pslg(poly)
  /\ tri' = <<>>
  /\ result' = SUCCESS
  /\ pc' = "ops"
  /\ last' = [NoOp EXCEPT !.op = "generate_pslg"]
  /\ UNCHANGED <<poly, out, ops>>
  /\ UNCHANGED polyvars
  /\ UNCHANGED segvars
  /\ UNCHANGED allocvars
  /\ UNCHANGED opsvars

Called(name, x, y) == [op |-> name, a |-> x, b |-> y, exit |-> "none"]

OpSplit ==
  /\ pc = "ops" /\ ops < MaxOps
  /\ \E e1 \in 0..Len(pslg.E) - 1, e2 \in 0..Len(pslg.E) - 1 :
       \E r \in {splitPSLG(pslg, e1, e2, NoFail)} :
         /\ r.result # NOOP
         /\ pslg' = r.pslg
         /\ result' = r.result
         /\ last' = Called("splitPSLG", e1, e2)
  /\ ops' = ops + 1
  /\ UNCHANGED <<poly, tri, out, pc>>
  /\ UNCHANGED polyvars
  /\ UNCHANGED segvars
  /\ UNCHANGED allocvars
  /\ UNCHANGED opsvars

OpDedupAVertex ==
  /\ pc = "ops" /\ ops < MaxOps
  /\ \E v1 \in 0..Len(pslg.V) - 1, v2 \in 0..Len(pslg.V) - 1 :
       \E r \in {dedup_pslg_a_vertex(pslg, v1, v2, NoFail)} :
         /\ r.result # NOOP
         /\ pslg' = r.pslg
         /\ result' = r.result
         /\ last' = Called("dedup_pslg_a_vertex", v1, v2)
  /\ ops' = ops + 1
  /\ UNCHANGED <<poly, tri, out, pc>>
  /\ UNCHANGED polyvars
  /\ UNCHANGED segvars
  /\ UNCHANGED allocvars
  /\ UNCHANGED opsvars

OpDedupAEdge ==
  /\ pc = "ops" /\ ops < MaxOps
  /\ \E e1 \in 0..Len(pslg.E) - 1, e2 \in 0..Len(pslg.E) - 1 :
       \E r \in {dedup_pslg_a_edge(pslg, e1, e2, NoFail)} :
         /\ r.result # NOOP
         /\ pslg' = r.pslg
         /\ result' = r.result
         /\ last' = Called("dedup_pslg_a_edge", e1, e2)
  /\ ops' = ops + 1
  /\ UNCHANGED <<poly, tri, out, pc>>
  /\ UNCHANGED polyvars
  /\ UNCHANGED segvars
  /\ UNCHANGED allocvars
  /\ UNCHANGED opsvars

OpDedupPslg ==
  /\ pc = "ops" /\ ops < MaxOps
  /\ \E r \in {dedup_pslg(pslg, NoFail)} :
       /\ pslg' = r.pslg
       /\ result' = r.result
       /\ last' = Called("dedup_pslg", -1, -1)
  /\ ops' = ops + 1
  /\ UNCHANGED <<poly, tri, out, pc>>
  /\ UNCHANGED polyvars
  /\ UNCHANGED segvars
  /\ UNCHANGED allocvars
  /\ UNCHANGED opsvars

OpAttack ==
  /\ pc = "ops" /\ ops < MaxOps
  /\ \E i \in 0..Len(pslg.V) - 1, z \in {NoFail, {"malloc0_null"}} :
       \E r \in {attack_vertex(pslg, tri, poly.fd, i, z)} :
         /\ r.result # NOOP
         /\ pslg' = r.pslg
         /\ tri' = r.tri
         /\ result' = r.result
         /\ pc' = IF IS_AN_ERROR(r.result) THEN "failed" ELSE "ops"
         /\ last' = Called("attack_vertex", i, -1)
  /\ ops' = ops + 1
  /\ UNCHANGED <<poly, out>>
  /\ UNCHANGED polyvars
  /\ UNCHANGED segvars
  /\ UNCHANGED allocvars
  /\ UNCHANGED opsvars

NextOps ==
  \/ GenerateOps
  \/ OpSplit
  \/ OpDedupAVertex
  \/ OpDedupAEdge
  \/ OpDedupPslg
  \/ OpAttack

InitOps == InitWith(OpsPolygons)

SpecOps == InitOps /\ [][NextOps]_vars


\* ------------------------------------------- whole functions, for polyhedra
RECURSIVE split_entirely(_, _)
split_entirely(g, f) ==
  LET Loop(r) == IF r.exit = "loop" THEN split_entirely(r.pslg, f)
                 ELSE Res(r.result, r.pslg)
  IN  Bind(split_entirely_pass(g, f), Loop)

RECURSIVE attack_all_vertices(_, _, _, _)
attack_all_vertices(g, t, fd, f) ==
  LET Loop(r) == IF r.result = NOOP THEN [r EXCEPT !.result = SUCCESS]
                 ELSE IF IS_AN_ERROR(r.result) THEN r
                 ELSE attack_all_vertices(r.pslg, r.tri, fd, f)
  IN  Bind(attack_single_vertex(g, t, fd, f), Loop)

\* generate_triangulation(result, pr, tri): [result, tri]
generate_triangulation(pr, t, f) ==
  LET AfterAttack(a) ==
        IF IS_AN_ERROR(a.result) THEN [result |-> a.result, tri |-> t]
        ELSE [result |-> SUCCESS, tri |-> copy_out(t, a.tri, f)]
      AfterSplit(s) ==
        IF IS_AN_ERROR(s.result) THEN [result |-> s.result, tri |-> t]
        ELSE Bind(attack_all_vertices(s.pslg, <<>>, pr.fd, f), AfterAttack)
  IN  Bind(split_entirely(generate_pslg(pr), f), AfterSplit)

empty_triangulation == <<>>

RECURSIVE Flatten(_)
Flatten(ts) == IF ts = <<>> THEN <<>> ELSE Head(ts) \o Flatten(Tail(ts))

RECURSIVE AddAll(_, _, _)
AddAll(output, triangles, f) ==
  IF triangles = <<>> THEN [result |-> SUCCESS, tri |-> output]
  ELSE LET Rest(r) == IF IS_AN_ERROR(r.result) THEN r
                      ELSE AddAll(r.tri, Tail(triangles), f)
       IN  Bind(add_triangle(output, Head(triangles), f), Rest)

RECURSIVE Reverse(_)
Reverse(s) == IF s = <<>> THEN <<>> ELSE Append(Reverse(Tail(s)), Head(s))

\* variant of merge_triangulations that walks the triangulations backwards
merge_triangulations_backwards(triangulations, f) ==
  AddAll(empty_triangulation, Flatten(Reverse(triangulations)), f)

\* merge_triangulations(result, triangulations, tri_count, output): the output
\* is reset to an empty triangulation, then every triangle of every
\* triangulation is added in order: [result, tri]
merge_triangulations(triangulations, f) ==
  AddAll(empty_triangulation, Flatten(triangulations), f)

\* the PolygonRaw triangulate_polyhedron builds for face i (lines 2541-2546)
FaceRaw(ph, i) ==
  LET fc == At(ph.faces, i)
  IN  [vertices |-> [v \in 1..Len(fc.vertices) |-> At(ph.vertices, fc.vertices[v])],
       fd |-> fc.fd]

\* the vertex table: the corners of a 2 x 1 rectangle, so that a face can be
\* convex, cross itself or, with repeated indices, be degenerate
PolyTables ==
  { << <<RInt(0), RInt(0), RInt(0)>>, <<RInt(2), RInt(0), RInt(0)>>,
       <<RInt(0), RInt(1), RInt(0)>>, <<RInt(2), RInt(1), RInt(0)>> >> }

\* index lists of a face: the empty list, the lists of MaxFaceLen - 1 or
\* MaxFaceLen distinct indices, and the lists of MaxFaceLen indices that
\* start with the same index three times (a degenerate face)
FaceLists ==
  {s \in UNION {[1..n -> 0..3] : n \in {0, MaxFaceLen - 1, MaxFaceLen}} :
     \/ \A i \in 1..Len(s), j \in 1..Len(s) : i # j => s[i] # s[j]
     \/ Len(s) = MaxFaceLen /\ s[1] = s[2] /\ s[2] = s[3]}

Faces == [vertices : FaceLists, fd : FaceDatas]

Polyhedra ==
  [vertices : PolyTables, faces : UNION {[1..n -> Faces] : n \in 0..MaxFaces}]

\* the unit cube: vertex x + 2y + 4z is (x, y, z); the faces z = 0, z = 1,
\* y = 0, y = 1, x = 0, x = 1, each as a cycle of four indices
UnitCube ==
  [vertices |-> [i \in 1..8 |-> <<RInt((i - 1) % 2), RInt(((i - 1) \div 2) % 2),
                                  RInt((i - 1) \div 4)>>],
   faces |-> [k \in 1..6 |->
                [vertices |-> << <<0, 1, 3, 2>>, <<4, 5, 7, 6>>, <<0, 1, 5, 4>>,
                                 <<2, 3, 7, 6>>, <<0, 2, 6, 4>>, <<1, 3, 7, 5>> >>[k],
                 fd |-> "fd"]]]

NamedPolyhedra == {UnitCube}

InitPoly ==
  /\ polyhedron \in Polyhedra \cup NamedPolyhedra
  /\ poly = [vertices |-> <<>>, fd |-> "fd"]
  /\ pslg = EmptyPslg
  /\ tri = <<>>
  /\ out = <<>>
  /\ pc = "start"
  /\ result = SUCCESS
  /\ last = NoOp
  /\ ops = 0
  /\ face = 0
  /\ tris = <<>>
  /\ iter = 0
  /\ cap = NoAlloc
  /\ fail = NoFail
  /\ isect = NoSegments

\* Triangulation **tris = malloc(poly->face_count * sizeof(Triangulation *));
\* with no face this is malloc(0), which may return a null pointer
PolyAlloc ==
  /\ pc = "start"
  /\ \E z \in {NoFail, {"malloc0_null"}} :
       IF Len(polyhedron.faces) = 0 /\ "malloc0_null" \in z
       THEN /\ result' = TRIANGULATE_POLYHEDRON_BATCH_TRIANGULATIONS_MALLOC_ERROR
            /\ pc' = "failed"
       ELSE /\ result' = result
            /\ pc' = "faces"
  /\ face' = 0
  /\ tris' = <<>>
  /\ last' = [NoOp EXCEPT !.op = "malloc_tris"]
  /\ UNCHANGED <<poly, pslg, tri, out, ops, polyhedron, iter, fail, isect>>
  /\ UNCHANGED allocvars

\* one round of the loop over the faces (lines 2516-2562)
PolyFace ==
  /\ pc = "faces"
  /\ face < Len(polyhedron.faces)
  /\ \E z \in {NoFail, {"malloc0_null"}} :
       \E r \in {generate_triangulation(FaceRaw(polyhedron, face),
                                        empty_triangulation, fail \cup z)} :
         /\ result' = r.result
         /\ IF IS_AN_ERROR(r.result)
            THEN /\ pc' = "failed"
                 /\ tris' = <<>>
                 /\ face' = face
            ELSE /\ pc' = "faces"
                 /\ tris' = Append(tris, r.tri)
                 /\ face' = face + 1
  /\ last' = [NoOp EXCEPT !.op = "generate_triangulation", !.a = face]
  /\ UNCHANGED <<poly, pslg, tri, out, ops, polyhedron, iter, fail, isect>>
  /\ UNCHANGED allocvars

\* merge_triangulations(result, tris, poly->face_count, out) and the return
PolyMerge ==
  /\ pc = "faces"
  /\ face = Len(polyhedron.faces)
  /\ \E r \in {merge_triangulations(tris, fail)} :
       /\ out' = r.tri
       /\ result' = r.result
       /\ pc' = IF IS_AN_ERROR(r.result) THEN "failed" ELSE "merged"
  /\ tris' = <<>>
  /\ last' = [NoOp EXCEPT !.op = "merge_triangulations"]
  /\ UNCHANGED <<poly, pslg, tri, ops, polyhedron, face, iter, fail, isect>>
  /\ UNCHANGED allocvars

NextPoly ==
  \/ PolyAlloc
  \/ PolyFace
  \/ PolyMerge

SpecPoly == InitPoly /\ [][NextPoly]_vars

\* ------------------------------------------------ failing allocations
\* SpecFail: triangulate_polyhedron on polyhedra whose faces are taken from a
\* few polygons, two of them large enough for the reallocations of splitPSLG
\* and of the dedup steps to happen (|V| or |E| crossing a multiple of 16);
\* at most one allocation site fails, every time it is reached.
FailSites ==
  {"split_vertex", "split_edge", "dedup_vertex", "dedup_edge",
   "add_triangle", "attack_temp", "attack_edge"}

FailSets == {NoFail} \cup {{s} : s \in FailSites}

\* a polygon of n >= 7 vertices whose vertex (0,1) lies on its edge (0,2)-(0,0);
\* the vertices between (0,1) and (0,2) lie on a convex arc
TJunction(n) ==
  [vertices |->
     [i \in 1..n |->
        IF i = 1 THEN <<RInt(0), RInt(0), RInt(0)>>
        ELSE IF i = 2 THEN <<RInt(0), RInt(1), RInt(0)>>
        ELSE IF i = n THEN <<RInt(0), RInt(2), RInt(0)>>
        ELSE <<RInt(1 + (i - 3) * ((n - 4) - (i - 3))), RInt(i - 3), RInt(0)>>],
   fd |-> "fd"]

UnitSquare ==
  [vertices |-> << <<RInt(0), RInt(0), RInt(0)>>, <<RInt(1), RInt(0), RInt(0)>>,
                   <<RInt(1), RInt(1), RInt(0)>>, <<RInt(0), RInt(1), RInt(0)>> >>,
   fd |-> "fd"]

CrossedSquare ==
  [vertices |-> << <<RInt(0), RInt(0), RInt(0)>>, <<RInt(1), RInt(1), RInt(0)>>,
                   <<RInt(1), RInt(0), RInt(0)>>, <<RInt(0), RInt(1), RInt(0)>> >>,
   fd |-> "fd"]

FailPolygons ==
  {TJunction(BigFaceLen), TJunction(BigFaceLen - 1), UnitSquare, CrossedSquare}

\* the polyhedron whose faces are the polygons ps, each with its own vertices
RECURSIVE PolyhedronOf(_)
PolyhedronOf(ps) ==
  IF ps = <<>> THEN NoPolyhedron
  ELSE LET rest == PolyhedronOf(SubSeq(ps, 1, Len(ps) - 1))
           p == ps[Len(ps)]
           base == Len(rest.vertices)
       IN  [vertices |-> rest.vertices \o p.vertices,
            faces |-> Append(rest.faces,
                             [vertices |-> [k \in 1..Len(p.vertices) |-> base + k - 1],
                              fd |-> p.fd])]

FailPolyhedra ==
  {PolyhedronOf(ps) : ps \in UNION {[1..n -> FailPolygons] : n \in 1..MaxFaces}}

InitFail ==
  /\ polyhedron \in FailPolyhedra
  /\ fail \in FailSets
  /\ poly = [vertices |-> <<>>, fd |-> "fd"]
  /\ pslg = EmptyPslg
  /\ tri = <<>>
  /\ out = <<>>
  /\ pc = "start"
  /\ result = SUCCESS
  /\ last = NoOp
  /\ ops = 0
  /\ face = 0
  /\ tris = <<>>
  /\ iter = 0
  /\ cap = NoAlloc
  /\ isect = NoSegments

SpecFail == InitFail /\ [][NextPoly]_vars

\* ------------------------------------------- every allocation of the steps
\* SpecAlloc: generate_triangulation by steps, where at most one allocation
\* site fails, every time it is reached.
AllocSites ==
  FailSites \cup {"pslg_init", "pslg_vertex", "pslg_edge", "pslgtri_init",
                  "tri_init", "copy_triangle", "malloc0_null"}

AllocSets == {NoFail} \cup {{s} : s \in AllocSites}

AllocPolygons == FailPolygons \cup NamedPolygons

InitAlloc ==
  /\ poly \in AllocPolygons
  /\ fail \in AllocSets
  /\ pslg = EmptyPslg
  /\ tri = <<>>
  /\ out = <<>>
  /\ pc = "start"
  /\ result = SUCCESS
  /\ last = NoOp
  /\ ops = 0
  /\ polyhedron = NoPolyhedron
  /\ face = 0
  /\ tris = <<>>
  /\ iter = 0
  /\ cap = NoAlloc
  /\ isect = NoSegments

SpecAlloc == InitAlloc /\ [][Next]_vars

\* ------------------------------------------- intersecting_segments on its own
\* SpecSeg: one call of intersecting_segments(a, b, c, d, &out), on four points
\* of the grid with z in 0..1, or on four points of the same grid scaled down
\* by SegScale (segments so short that EPSILON matters).
SegPoints ==
  {<<RInt(x), RInt(y), RInt(z)>> : x \in 0..GridMax, y \in 0..GridMax, z \in 0..1}

FinePoints ==
  {<<Rat(x, SegScale), Rat(y, SegScale), RInt(0)>> :
     x \in 0..GridMax, y \in 0..GridMax}

SegCalls(points) ==
  [a : points, b : points, c : points, d : points, ret : {-1}, out : {<<>>}]

InitSeg ==
  /\ isect \in SegCalls(SegPoints) \cup SegCalls(FinePoints)
  /\ poly = [vertices |-> <<>>, fd |-> "fd"]
  /\ pslg = EmptyPslg
  /\ tri = <<>>
  /\ out = <<>>
  /\ pc = "start"
  /\ result = SUCCESS
  /\ last = NoOp
  /\ ops = 0
  /\ polyhedron = NoPolyhedron
  /\ face = 0
  /\ tris = <<>>
  /\ iter = 0
  /\ cap = NoAlloc
  /\ fail = NoFail

\* the call: *out is written only when 1 is returned
IntersectingSegments ==
  /\ pc = "start"
  /\ \E x \in {intersecting_segments(isect.a, isect.b, isect.c, isect.d)} :
       isect' = [isect EXCEPT !.ret = x.hit,
                              !.out = IF x.hit = 1 THEN x.out ELSE @]
  /\ pc' = "returned"
  /\ last' = [NoOp EXCEPT !.op = "intersecting_segments"]
  /\ UNCHANGED <<poly, pslg, tri, out, result, ops, iter, fail>>
  /\ UNCHANGED polyvars
  /\ UNCHANGED allocvars

NextSeg == IntersectingSegments

SpecSeg == InitSeg /\ [][NextSeg]_vars

\* ------------------------------------------------- single calls, observed
\* SpecCall: after generate_pslg at most MaxOps calls of splitPSLG,
\* dedup_pslg_a_vertex, dedup_pslg_a_edge, attack_vertex or
\* attack_all_vertices, with any arguments.  Every call is a step, whatever it
\* returns: *result is kept as the callee wrote it (NOOP included), and one
\* allocation site of the callee may fail.
CallPolygons ==
  {p \in OpsPolygons :
     Len(p.vertices) > 0 => p.vertices[1] = <<RInt(0), RInt(0), RInt(0)>>}

InitCall == InitWith(CallPolygons)

SplitFails == {NoFail, {"split_vertex"}, {"split_edge"}}

DedupFails == {NoFail, {"dedup_vertex"}, {"dedup_edge"}}

AttackFails ==
  {NoFail, {"malloc0_null"}, {"add_triangle"}, {"attack_temp"}, {"attack_edge"}}

AfterCall(r) == IF IS_AN_ERROR(r) THEN "failed" ELSE "ops"

CallSplit ==
  /\ pc = "ops" /\ ops < MaxOps
  /\ \E e1 \in 0..Len(pslg.E) - 1, e2 \in 0..Len(pslg.E) - 1, z \in SplitFails :
       \E r \in {splitPSLG(pslg, e1, e2, z)} :
         /\ pslg' = r.pslg
         /\ result' = r.result
         /\ pc' = AfterCall(r.result)
         /\ last' = Called("splitPSLG", e1, e2)
  /\ ops' = ops + 1
  /\ UNCHANGED <<poly, tri, out>>
  /\ UNCHANGED polyvars
  /\ UNCHANGED segvars
  /\ UNCHANGED allocvars
  /\ UNCHANGED opsvars

CallDedupAVertex ==
  /\ pc = "ops" /\ ops < MaxOps
  /\ \E v1 \in 0..Len(pslg.V) - 1, v2 \in 0..Len(pslg.V) - 1, z \in DedupFails :
       \E r \in {dedup_pslg_a_vertex(pslg, v1, v2, z)} :
         /\ pslg' = r.pslg
         /\ result' = r.result
         /\ pc' = AfterCall(r.result)
         /\ last' = Called("dedup_pslg_a_vertex", v1, v2)
  /\ ops' = ops + 1
  /\ UNCHANGED <<poly, tri, out>>
  /\ UNCHANGED polyvars
  /\ UNCHANGED segvars
  /\ UNCHANGED allocvars
  /\ UNCHANGED opsvars

CallDedupAEdge ==
  /\ pc = "ops" /\ ops < MaxOps
  /\ \E e1 \in 0..Len(pslg.E) - 1, e2 \in 0..Len(pslg.E) - 1, z \in DedupFails :
       \E r \in {dedup_pslg_a_edge(pslg, e1, e2, z)} :
         /\ pslg' = r.pslg
         /\ result' = r.result
         /\ pc' = AfterCall(r.result)
         /\ last' = Called("dedup_pslg_a_edge", e1, e2)
  /\ ops' = ops + 1
  /\ UNCHANGED <<poly, tri, out>>
  /\ UNCHANGED polyvars
  /\ UNCHANGED segvars
  /\ UNCHANGED allocvars
  /\ UNCHANGED opsvars

CallAttack ==
  /\ pc = "ops" /\ ops < MaxOps
  /\ \E i \in 0..Len(pslg.V) - 1, z \in AttackFails :
       \E r \in {attack_vertex(pslg, tri, poly.fd, i, z)} :
         /\ pslg' = r.pslg
         /\ tri' = r.tri
         /\ result' = r.result
         /\ pc' = AfterCall(r.result)
         /\ last' = Called("attack_vertex", i, -1)
  /\ ops' = ops + 1
  /\ UNCHANGED <<poly, out>>
  /\ UNCHANGED polyvars
  /\ UNCHANGED segvars
  /\ UNCHANGED allocvars
  /\ UNCHANGED opsvars

CallAttackAll ==
  /\ pc = "ops" /\ ops < MaxOps
  /\ \E z \in AttackFails :
       \E r \in {attack_all_vertices(pslg, tri, poly.fd, z)} :
         /\ pslg' = r.pslg
         /\ tri' = r.tri
         /\ result' = r.result
         /\ pc' = AfterCall(r.result)
         /\ last' = Called("attack_all_vertices", -1, -1)
  /\ ops' = ops + 1
  /\ UNCHANGED <<poly, out>>
  /\ UNCHANGED polyvars
  /\ UNCHANGED segvars
  /\ UNCHANGED allocvars
  /\ UNCHANGED opsvars

NextCall ==
  \/ GenerateOps
  \/ CallSplit
  \/ CallDedupAVertex
  \/ CallDedupAEdge
  \/ CallAttack
  \/ CallAttackAll

SpecCall == InitCall /\ [][NextCall]_vars

\* ------------------------------------------------- allocated lengths, observed
\* SpecCap: the calls of SpecCall on polygons of up to 2 * BigFaceLen vertices,
\* with the allocated length of every array followed through each malloc and
\* realloc.  cap.V, cap.E and cap.T are the lengths (in elements) of the blocks
\* behind pslg->vertices, pslg->edges and the triangles of the triangulation
\* (0: no block, the pointer is null); cap.ev lists, in the order of the code,
\* the allocations of the last call and the indices it wrote, each with the
\* length the written block had at that moment.
Event(kind, arr, from, to, count, idx) ==
  [kind |-> kind, arr |-> arr, from |-> from, to |-> to, count |-> count, idx |-> idx]

Begin(c) == [c EXCEPT !.ev = <<>>]

\* arr = malloc(BIT_ALIGN(count) * sizeof ...)
Malloc(c, arr, count) ==
  [c EXCEPT ![arr] = BIT_ALIGN(count),
            !.ev = Append(@, Event("malloc", arr, 0, BIT_ALIGN(count), 0, {}))]

\* variant of Realloc that asks for twice the present length
Realloc_doubling(c, arr, count, newcount) ==
  IF REALIGN(count, newcount)
  THEN [c EXCEPT ![arr] = 2 * c[arr],
                 !.ev = Append(@, Event("realloc", arr, c[arr], 2 * c[arr], count, {}))]
  ELSE c

\* if (REALIGN(count, newcount)) arr = realloc(arr, BIT_ALIGN(newcount) * sizeof ...)
Realloc(c, arr, count, newcount) ==
  IF REALIGN(count, newcount)
  THEN [c EXCEPT ![arr] = BIT_ALIGN(newcount),
                 !.ev = Append(@, Event("realloc", arr, c[arr], BIT_ALIGN(newcount),
                                         count, {}))]
  ELSE c

\* arr[i] = ... for every i of idx
Written(c, arr, idx) ==
  IF idx = {} THEN c
  ELSE [c EXCEPT !.ev = Append(@, Event("write", arr, c[arr], c[arr], -1, idx))]

generate_pslg_alloc(pr, c) ==
  LET n == Len(pr.vertices)
      c1 == Written(Malloc(Begin(c), "V", n), "V", 0..(n - 1))
  IN  Written(Malloc(c1, "E", n), "E", 0..(n - 1))

\* r is what the call returned; a failed realloc leaves the block as it was
splitPSLG_alloc(g, c, edge1, edge2, r) ==
  IF r.result = NOOP \/ r.result = PSLG_EDGE_SPLIT_VERTEX_REALLOC_ERROR THEN Begin(c)
  ELSE LET vc == Len(g.V)
           ec == Len(g.E)
           c1 == Realloc(Begin(c), "V", vc, vc + 1)
       IN  IF r.result = PSLG_EDGE_SPLIT_EDGE_REALLOC_ERROR THEN c1
           ELSE Written(Written(Realloc(c1, "E", ec, ec + 2), "V", {vc}),
                        "E", {ec, ec + 1, edge1, edge2})

\* variant of dedup_pslg_a_vertex_alloc that keeps the block of the vertices
dedup_pslg_a_vertex_alloc_keep(g, c, v1, v2, r) ==
  IF r.result = NOOP THEN Begin(c)
  ELSE LET vc == Len(g.V)
           ec == Len(g.E)
           c1 == Written(Begin(c), "V", v2..(vc - 2))
       IN  IF IS_AN_ERROR(r.result) THEN c1
           ELSE Written(c1, "E",
                        {i \in 0..(ec - 1) : At(g.E, i)[1] >= v2 \/ At(g.E, i)[2] >= v2})

\* the shift of lines 1957-1959 comes before the realloc
dedup_pslg_a_vertex_alloc(g, c, v1, v2, r) ==
  IF r.result = NOOP THEN Begin(c)
  ELSE LET vc == Len(g.V)
           ec == Len(g.E)
           c1 == Written(Begin(c), "V", v2..(vc - 2))
       IN  IF IS_AN_ERROR(r.result) THEN c1
           ELSE Written(Realloc(c1, "V", vc, vc - 1), "E",
                        {i \in 0..(ec - 1) : At(g.E, i)[1] >= v2 \/ At(g.E, i)[2] >= v2})

dedup_pslg_a_edge_alloc(g, c, e1, e2, r) ==
  IF r.result = NOOP THEN Begin(c)
  ELSE LET ec == Len(g.E)
           c1 == Written(Begin(c), "E", e2..(ec - 2))
       IN  IF IS_AN_ERROR(r.result) THEN c1
           ELSE Realloc(c1, "E", ec, ec - 1)

\* add_triangle first, then the temporary array, then the edges
attack_vertex_alloc(g, t, c, r) ==
  IF r.result = NOOP \/ r.result = ADDING_TRI_REALLOC_FAILURE THEN Begin(c)
  ELSE LET tc == Len(t)
           ec == Len(g.E)
           c1 == Written(Realloc(Begin(c), "T", tc, tc + 1), "T", {tc})
       IN  IF IS_AN_ERROR(r.result) THEN c1
           ELSE LET ecount == Len(r.pslg.E)
                IN  Written(Realloc(c1, "E", ec, ecount), "E", 0..(ecount - 1))

HeldN(k) == [i \in 1..k |-> HeldTriangle]

\* a polygon with the triangles the triangulation already holds
CapInputs ==
  {[poly |-> TJunction(BigFaceLen - 1), tri |-> HeldN(BigFaceLen - 1)],
   [poly |-> TJunction(BigFaceLen), tri |-> HeldN(BigFaceLen)],
   [poly |-> TJunction(BigFaceLen + 1), tri |-> <<>>],
   [poly |-> TJunction(2 * BigFaceLen), tri |-> HeldN(2 * BigFaceLen)],
   [poly |-> UnitSquare, tri |-> <<>>],
   [poly |-> CrossedSquare, tri |-> <<>>]}

InitCap ==
  /\ \E i \in CapInputs :
       /\ poly = i.poly
       /\ tri = i.tri
       /\ cap = [NoAlloc EXCEPT !.T = IF i.tri = <<>> THEN 0 ELSE BIT_ALIGN(Len(i.tri))]
  /\ pslg = EmptyPslg
  /\ out = <<>>
  /\ pc = "start"
  /\ result = SUCCESS
  /\ last = NoOp
  /\ ops = 0
  /\ polyhedron = NoPolyhedron
  /\ face = 0
  /\ tris = <<>>
  /\ iter = 0
  /\ fail = NoFail
  /\ isect = NoSegments

\* the allocation outcomes to try for a call that returns r0 when none fails
FailsOf(r0, sites) == IF r0.result = NOOP THEN {NoFail} ELSE sites

CapGenerate ==
  /\ pc = "start"
  /\ pslg' = generate_pslg(poly)
  /\ cap' = generate_pslg_alloc(poly, cap)
  /\ result' = SUCCESS
  /\ pc' = "ops"
  /\ last' = [NoOp EXCEPT !.op = "generate_pslg"]
  /\ UNCHANGED <<poly, tri, out, ops>>
  /\ UNCHANGED polyvars
  /\ UNCHANGED segvars
  /\ UNCHANGED opsvars

CapSplit ==
  /\ pc = "ops" /\ ops < MaxOps
  /\ \E e1 \in 0..Len(pslg.E) - 1, e2 \in 0..Len(pslg.E) - 1 :
       \E r0 \in {splitPSLG(pslg, e1, e2, NoFail)} :
         \E z \in FailsOf(r0, SplitFails) :
           \E r \in {IF z = NoFail THEN r0 ELSE splitPSLG(pslg, e1, e2, z)} :
             /\ pslg' = r.pslg
             /\ cap' = splitPSLG_alloc(pslg, cap, e1, e2, r)
             /\ result' = r.result
             /\ pc' = AfterCall(r.result)
             /\ last' = [NoOp EXCEPT !.op = "splitPSLG"]
  /\ ops' = ops + 1
  /\ UNCHANGED <<poly, tri, out>>
  /\ UNCHANGED polyvars
  /\ UNCHANGED segvars
  /\ UNCHANGED opsvars

CapDedupAVertex ==
  /\ pc = "ops" /\ ops < MaxOps
  /\ \E v1 \in 0..Len(pslg.V) - 1, v2 \in 0..Len(pslg.V) - 1 :
       \E r0 \in {dedup_pslg_a_vertex(pslg, v1, v2, NoFail)} :
         \E z \in FailsOf(r0, DedupFails) :
           \E r \in {IF z = NoFail THEN r0 ELSE dedup_pslg_a_vertex(pslg, v1, v2, z)} :
             /\ pslg' = r.pslg
             /\ cap' = dedup_pslg_a_vertex_alloc(pslg, cap, v1, v2, r)
             /\ result' = r.result
             /\ pc' = AfterCall(r.result)
             /\ last' = [NoOp EXCEPT !.op = "dedup_pslg_a_vertex"]
  /\ ops' = ops + 1
  /\ UNCHANGED <<poly, tri, out>>
  /\ UNCHANGED polyvars
  /\ UNCHANGED segvars
  /\ UNCHANGED opsvars

CapDedupAEdge ==
  /\ pc = "ops" /\ ops < MaxOps
  /\ \E e1 \in 0..Len(pslg.E) - 1, e2 \in 0..Len(pslg.E) - 1 :
       \E r0 \in {dedup_pslg_a_edge(pslg, e1, e2, NoFail)} :
         \E z \in FailsOf(r0, DedupFails) :
           \E r \in {IF z = NoFail THEN r0 ELSE dedup_pslg_a_edge(pslg, e1, e2, z)} :
             /\ pslg' = r.pslg
             /\ cap' = dedup_pslg_a_edge_alloc(pslg, cap, e1, e2, r)
             /\ result' = r.result
             /\ pc' = AfterCall(r.result)
             /\ last' = [NoOp EXCEPT !.op = "dedup_pslg_a_edge"]
  /\ ops' = ops + 1
  /\ UNCHANGED <<poly, tri, out>>
  /\ UNCHANGED polyvars
  /\ UNCHANGED segvars
  /\ UNCHANGED opsvars

CapAttack ==
  /\ pc = "ops" /\ ops < MaxOps
  /\ \E i \in 0..Len(pslg.V) - 1 :
       \E r0 \in {attack_vertex(pslg, tri, poly.fd, i, NoFail)} :
         \E z \in FailsOf(r0, AttackFails) :
           \E r \in {IF z = NoFail THEN r0 ELSE attack_vertex(pslg, tri, poly.fd, i, z)} :
             /\ pslg' = r.pslg
             /\ tri' = r.tri
             /\ cap' = attack_vertex_alloc(pslg, tri, cap, r)
             /\ result' = r.result
             /\ pc' = AfterCall(r.result)
             /\ last' = [NoOp EXCEPT !.op = "attack_vertex"]
  /\ ops' = ops + 1
  /\ UNCHANGED <<poly, out>>
  /\ UNCHANGED polyvars
  /\ UNCHANGED segvars
  /\ UNCHANGED opsvars

NextCap ==
  \/ CapGenerate
  \/ CapSplit
  \/ CapDedupAVertex
  \/ CapDedupAEdge
  \/ CapAttack

SpecCap == InitCap /\ [][NextCap]_vars

\* ------------------------------------------------------- geometry of the claims
\* Exact predicates on the xy-projection, used to state the claims only.
Cross2(o, p, q) ==
  RSub(RMul(RSub(p[1], o[1]), RSub(q[2], o[2])),
       RMul(RSub(p[2], o[2]), RSub(q[1], o[1])))

Dot2(o, p, q) ==
  RAdd(RMul(RSub(p[1], o[1]), RSub(q[1], o[1])),
       RMul(RSub(p[2], o[2]), RSub(q[2], o[2])))

Sign(r) == IF r[1] > 0 THEN 1 ELSE IF r[1] < 0 THEN -1 ELSE 0

SameXY(p, q) == p[1] = q[1] /\ p[2] = q[2]

\* p lies on the closed segment [a, b]
OnSegment(p, a, b) ==
  /\ Sign(Cross2(a, b, p)) = 0
  /\ Sign(Dot2(p, a, b)) <= 0

\* p lies strictly inside the segment [a, b]
InsideSegment(p, a, b) ==
  /\ Sign(Cross2(a, b, p)) = 0
  /\ Sign(Dot2(p, a, b)) < 0

\* the closed segments [a, b] and [c, d] have a common point
SegmentsMeet(a, b, c, d) ==
  \/ OnSegment(a, c, d) \/ OnSegment(b, c, d)
  \/ OnSegment(c, a, b) \/ OnSegment(d, a, b)
  \/ /\ Sign(Cross2(a, b, c)) * Sign(Cross2(a, b, d)) < 0
     /\ Sign(Cross2(c, d, a)) * Sign(Cross2(c, d, b)) < 0

\* some point lies strictly inside both segments: a proper crossing of two
\* non-parallel segments, or two collinear segments whose interiors overlap
ProperCrossing(a, b, c, d) ==
  /\ Sign(Cross2(a, b, c)) * Sign(Cross2(a, b, d)) < 0
  /\ Sign(Cross2(c, d, a)) * Sign(Cross2(c, d, b)) < 0

CollinearOverlap(a, b, c, d) ==
  /\ ~SameXY(a, b) /\ ~SameXY(c, d)
  /\ Sign(Cross2(a, b, c)) = 0 /\ Sign(Cross2(a, b, d)) = 0
  /\ \/ InsideSegment(c, a, b) \/ InsideSegment(d, a, b)
     \/ InsideSegment(a, c, d) \/ InsideSegment(b, c, d)
     \/ (SameXY(a, c) /\ SameXY(b, d)) \/ (SameXY(a, d) /\ SameXY(b, c))

InteriorsMeet(a, b, c, d) ==
  ProperCrossing(a, b, c, d) \/ CollinearOverlap(a, b, c, d)

EdgeA(g, k) == At(g.V, At(g.E, k)[1])
EdgeB(g, k) == At(g.V, At(g.E, k)[2])

REq(p, q) == p[1] * q[2] = q[1] * p[2]

EdgeIdx(g) == 0..Len(g.E) - 1

NextIdx(n, i) == (i % n) + 1

\* a simple polygon: at least 3 pairwise distinct vertices, consecutive edges
\* meet in their shared vertex only, other edges do not meet at all
Simple(p) ==
  LET n == Len(p.vertices)
      v == p.vertices
      Adjacent(i, j) == j = NextIdx(n, i) \/ i = NextIdx(n, j)
  IN  /\ n >= 3
      /\ \A i \in 1..n, j \in 1..n : i # j => ~SameXY(v[i], v[j])
      /\ \A i \in 1..n :
           LET a == v[i]
               b == v[NextIdx(n, i)]
               c == v[NextIdx(n, NextIdx(n, i))]
           IN  ~(Sign(Cross2(b, a, c)) = 0 /\ Sign(Dot2(b, a, c)) > 0)
      /\ \A i \in 1..n, j \in 1..n :
           (i < j /\ ~Adjacent(i, j)) =>
             ~SegmentsMeet(v[i], v[NextIdx(n, i)], v[j], v[NextIdx(n, j)])

\* twice the signed area of the triangle (a, b, c), in this vertex order
TriArea2(t) == Cross2(t[1], t[2], t[3])

RECURSIVE SumTriArea2(_, _)
SumTriArea2(t, k) ==
  IF k = 0 THEN RInt(0) ELSE RAdd(SumTriArea2(t, k - 1), TriArea2(t[k].v))

\* twice the signed area of a polygon (shoelace formula)
RECURSIVE Shoelace(_, _)
Shoelace(v, k) ==
  IF k = 0 THEN RInt(0)
  ELSE RAdd(Shoelace(v, k - 1),
            RSub(RMul(v[k][1], v[NextIdx(Len(v), k)][2]),
                 RMul(v[NextIdx(Len(v), k)][1], v[k][2])))

PolyArea2(p) == Shoelace(p.vertices, Len(p.vertices))

\* the open interiors of the triangles s and t have a common point: both are
\* non-degenerate and no edge line of either separates them
InnerSide(t, k, p) ==
  Sign(Cross2(t[k], t[NextIdx(3, k)], p)) * Sign(TriArea2(t)) > 0

NotSeparatedBy(s, t) == \A k \in 1..3 : \E m \in 1..3 : InnerSide(s, k, t[m])

InteriorsOverlap(s, t) ==
  /\ Sign(TriArea2(s)) # 0
  /\ Sign(TriArea2(t)) # 0
  /\ NotSeparatedBy(s, t)
  /\ NotSeparatedBy(t, s)

Covered(p, t) ==
  \A i \in 1..Len(p.vertices) :
    \E k \in 1..Len(t), m \in 1..3 : t[k].v[m] = p.vertices[i]

NoEqualVertices(g) ==
  \A i \in 1..Len(g.V), j \in 1..Len(g.V) : i # j => ~equal_vec3(g.V[i], g.V[j])

DistinctVertices(p) ==
  \A i \in 1..Len(p.vertices), j \in 1..Len(p.vertices) :
    i # j => ~SameXY(p.vertices[i], p.vertices[j])

SplitReturned == pc = "create" /\ last.op = "split_entirely"

\* ------------------------------------------------------------------- claims
\* C1: when split_entirely has returned success on the PSLG of generate_pslg,
\* no two edges share a point strictly inside both of them, collinear
\* overlapping edges included (stated for polygons of at least 3 pairwise
\* distinct vertices).
C1_NoInteriorCrossing ==
  (SplitReturned /\ Len(poly.vertices) >= 3 /\ DistinctVertices(poly)) =>
    \A i \in EdgeIdx(pslg), j \in EdgeIdx(pslg) :
      i # j => ~InteriorsMeet(EdgeA(pslg, i), EdgeB(pslg, i),
                              EdgeA(pslg, j), EdgeB(pslg, j))

\* C2: for a simple polygon, no two distinct triangles of the triangulation
\* generate_triangulation returns share an interior point.
C2_TrianglesDisjoint ==
  (pc = "done" /\ Simple(poly)) =>
    \A i \in 1..Len(out), j \in 1..Len(out) :
      i # j => ~InteriorsOverlap(out[i].v, out[j].v)

\* C3: for a simple polygon, the signed areas of the triangles that
\* generate_triangulation returns, each in its emitted vertex order, sum to
\* the signed area of the polygon, exactly.
C3_SignedArea ==
  (pc = "done" /\ Simple(poly)) =>
    REq(SumTriArea2(out, Len(out)), PolyArea2(poly))

\* a simple polygon whose triangulation holds a triangle of the opposite
\* orientation: the sum is right only because the areas are signed
C3_Witness ==
  /\ pc = "done"
  /\ Simple(poly)
  /\ \E k \in 1..Len(out) : Sign(TriArea2(out[k].v)) * Sign(PolyArea2(poly)) < 0

\* C4: for every polygon of at least 3 vertices, every vertex of the polygon
\* is a vertex of some triangle generate_triangulation returns.
C4_VerticesCovered ==
  (pc = "done" /\ Len(poly.vertices) >= 3) => Covered(poly, out)

\* C10: after generate_pslg and after split_entirely has returned success, no
\* two positions of V hold vertices that are equal within the tolerance
\* (stated for polygons of at least 3 vertices).
C10_NoEqualVertices ==
  (Len(poly.vertices) >= 3 /\ (last.op = "generate_pslg" \/ SplitReturned)) =>
    NoEqualVertices(pslg)

\* the sequence s without the positions (0-based) in drop, order kept
Without(s, drop) ==
  LET idx == SelectSeq([i \in 1..Len(s) |-> i - 1], LAMBDA x : x \notin drop)
  IN  [k \in 1..Len(idx) |-> At(s, idx[k])]

IsPrefix(s, t) == Len(s) <= Len(t) /\ SubSeq(t, 1, Len(s)) = s

OtherEnd(e, i) == IF e[1] = i THEN e[2] ELSE e[1]

\* what a successful splitPSLG(e1, e2) on g must have made of it, h
SplitContract(g, e1, e2, h) ==
  LET vc == Len(g.V)
      ec == Len(g.E)
      u1 == At(g.E, e1)[1]
      v1 == At(g.E, e1)[2]
      u2 == At(g.E, e2)[1]
      v2 == At(g.E, e2)[2]
      w == At(h.V, vc)
      x == intersecting_segments(At(g.V, u1), At(g.V, v1),
                                 At(g.V, u2), At(g.V, v2))
      IsPoint(k) == SameXY(EdgeA(g, k), EdgeB(g, k))
  IN  /\ Len(h.V) = vc + 1
      /\ IsPrefix(g.V, h.V)
      /\ x.hit = 1 /\ w = x.out
      /\ (~IsPoint(e1) /\ ~IsPoint(e2)) =>
            /\ OnSegment(w, At(g.V, u1), At(g.V, v1))
            /\ OnSegment(w, At(g.V, u2), At(g.V, v2))
      /\ Len(h.E) = ec + 2
      /\ At(h.E, e1) = <<u1, vc>>
      /\ At(h.E, e2) = <<u2, vc>>
      /\ At(h.E, ec) = <<v1, vc>>
      /\ At(h.E, ec + 1) = <<v2, vc>>
      /\ \A k \in EdgeIdx(g) : (k # e1 /\ k # e2) => At(h.E, k) = At(g.E, k)

\* what a successful attack_vertex(i) on (g, t) must have made of it, (h, t2)
AttackContract(g, t, i, h, t2) ==
  LET inc == Incident(g, i)
      a == OtherEnd(At(g.E, SetMin(inc)), i)
      b == OtherEnd(At(g.E, SetMax(inc)), i)
      existed == \E k \in EdgeIdx(g) : {At(g.E, k)[1], At(g.E, k)[2]} = {a, b}
  IN  /\ Cardinality(inc) = 2
      /\ Len(t2) = Len(t) + 1
      /\ IsPrefix(t, t2)
      /\ h.V = g.V
      /\ Incident(h, i) = {}
      /\ existed => (Len(h.E) = Len(g.E) - 2 /\ h.E = Without(g.E, inc))
      /\ ~existed => (Len(h.E) = Len(g.E) - 1
                      /\ h.E = Append(Without(g.E, inc), <<a, b>>))

ValidIndices(g) ==
  \A k \in 1..Len(g.E) : \A m \in 1..2 : g.E[k][m] \in 0..Len(g.V) - 1

\* C5: a successful splitPSLG(e1, e2), e1 = (u1, v1), e2 = (u2, v2), appends
\* exactly one vertex w, the point intersecting_segments computed (a point of
\* both segments when neither is a single point), at index old |V|, makes e1
\* (u1, w) and e2 (u2, w), appends (v1, w) and (v2, w) in that order and
\* changes nothing else: |V| grows by 1 and |E| by 2.
C5_SplitContract ==
  [][(last'.op = "splitPSLG" /\ result' = SUCCESS) =>
       SplitContract(pslg, last'.a, last'.b, pslg')]_vars

\* a split has just succeeded on the PSLG of generate_pslg
C5_Witness ==
  /\ last.op = "splitPSLG"
  /\ result = SUCCESS
  /\ ops = 1
  /\ Len(pslg.V) = Len(poly.vertices) + 1

\* C6: a successful attack_vertex(i) with neighbours a and b adds exactly one
\* triangle, removes both edges incident to i, appends (a, b) unless an edge
\* with endpoints {a, b} existed, and changes no other edge.
C6_AttackContract ==
  [][(last'.op = "attack_vertex" /\ result' = SUCCESS) =>
       AttackContract(pslg, tri, last'.a, pslg', tri')]_vars

\* an attack has just succeeded and appended the edge between the neighbours
C6_Witness ==
  /\ last.op = "attack_vertex"
  /\ result = SUCCESS
  /\ ops = 1
  /\ Len(tri) = 1
  /\ Len(pslg.E) = Len(poly.vertices) - 1

\* C7: dedup_pslg applied a second time, right after the first, changes
\* neither V nor E, and neither run returns an error.
C7_DedupIdempotent ==
  (pc = "ops") =>
    \A r1 \in {dedup_pslg(pslg, NoFail)} :
      \A r2 \in {dedup_pslg(r1.pslg, NoFail)} :
        /\ ~IS_AN_ERROR(r1.result)
        /\ ~IS_AN_ERROR(r2.result)
        /\ r2.pslg = r1.pslg

\* a PSLG with valid indices from which the first dedup_pslg removes at least
\* two vertices and at least one edge
C7_Witness ==
  /\ pc = "ops"
  /\ ValidIndices(pslg)
  /\ \E r1 \in {dedup_pslg(pslg, NoFail)} :
       /\ Len(r1.pslg.V) + 2 <= Len(pslg.V)
       /\ Len(r1.pslg.E) < Len(pslg.E)

\* C9: in every state reached by generate_pslg, splitPSLG, the dedup
\* operations and attack_vertex without a fatal error, every endpoint of
\* every edge is an index of V.
C9_ValidIndices == (STATUS_TYPE(result) # FATAL) => ValidIndices(pslg)

\* two vertices have just been merged and the indices above the removed one
\* have moved down
C9_Witness ==
  /\ last.op = "dedup_pslg_a_vertex"
  /\ result = SUCCESS
  /\ last.b < Len(pslg.V)
  /\ \E k \in 1..Len(pslg.E) : pslg.E[k][2] = Len(pslg.V) - 1

\* the lists generate_triangulation returns for the faces 0 .. k - 1, each
\* face triangulated on its own into an empty triangulation, one after another
RECURSIVE FacesAlone(_, _)
FacesAlone(ph, k) ==
  IF k = 0 THEN <<>>
  ELSE FacesAlone(ph, k - 1)
         \o generate_triangulation(FaceRaw(ph, k - 1), <<>>, NoFail).tri

\* C8: when triangulate_polyhedron succeeds, its output is the concatenation,
\* in face order, of the lists generate_triangulation returns for each face
\* on its own.
C8_Concatenation ==
  (pc = "merged") =>
    /\ result = SUCCESS
    /\ out = FacesAlone(polyhedron, Len(polyhedron.faces))

\* a polyhedron of two faces with different, non-empty triangulations
C8_Witness ==
  /\ pc = "merged"
  /\ Len(polyhedron.faces) = 2
  /\ \E t0 \in {generate_triangulation(FaceRaw(polyhedron, 0), <<>>, NoFail).tri} :
       \E t1 \in {generate_triangulation(FaceRaw(polyhedron, 1), <<>>, NoFail).tri} :
         /\ Len(t0) >= 1 /\ Len(t1) >= 2
         /\ t0 \o t1 # t1 \o t0
         /\ out = t0 \o t1

\* no two distinct positions of E hold the same unordered pair of indices
NoDuplicateEdges(g) ==
  \A i \in 1..Len(g.E), j \in 1..Len(g.E) :
    i # j => {g.E[i][1], g.E[i][2]} # {g.E[j][1], g.E[j][2]}

\* no edge of E joins a vertex index to itself
NoSelfLoop(g) == \A i \in 1..Len(g.E) : g.E[i][1] # g.E[i][2]

\* generate_pslg has returned, split_entirely has returned success, or an
\* attack_vertex call has just succeeded
AfterBuildSplitOrAttack ==
  \/ last.op = "generate_pslg"
  \/ SplitReturned
  \/ (last.op = "attack_all_vertices" /\ last.exit = "loop")

\* C11: after generate_pslg, after split_entirely has returned success and
\* after every successful attack_vertex, no two distinct positions of E hold
\* the same unordered pair of vertex indices, for every input polygon, the
\* polygons of fewer than three vertices included.
C11_NoDuplicateEdges ==
  AfterBuildSplitOrAttack => NoDuplicateEdges(pslg)

\* C12: for every polygon of at least 3 pairwise distinct vertices, no edge of
\* E is a self-loop in any state generate_pslg, split_entirely and
\* attack_all_vertices reach.
C12_NoSelfLoop ==
  (Len(poly.vertices) >= 3 /\ DistinctVertices(poly)) => NoSelfLoop(pslg)

\* the first round of split_entirely on the PSLG of the polygon p
FirstPass(p) == split_entirely_pass(generate_pslg(p), NoFail)

\* C13: without allocation failure split_entirely terminates: its loop never
\* reaches the cap on the rounds, so every round is followed by another round
\* or by the return, and the rounds are fewer than MaxIter.
C13_SplitTerminates ==
  (pc = "split" /\ fail = NoFail) => iter < MaxIter

\* split_entirely has returned after at least two rounds, the first of which
\* (a split followed by dedup) left |V| unchanged and |E| changed
C13_Witness ==
  /\ SplitReturned
  /\ fail = NoFail
  /\ iter >= 2
  /\ \E p1 \in {FirstPass(poly)} :
       /\ p1.exit = "loop"
       /\ Len(p1.pslg.V) = Len(poly.vertices)
       /\ Len(p1.pslg.E) # Len(poly.vertices)

\* the number of positions of E that hold the vertex index v
DegreeOf(g, v) ==
  Cardinality({i \in 1..Len(g.E) : g.E[i][1] = v \/ g.E[i][2] = v})

\* some vertex index is held by exactly two positions of E
HasDegreeTwo(g) == \E v \in 0..Len(g.V) - 1 : DegreeOf(g, v) = 2

\* C14: attack_all_vertices terminates: every round that attacks a vertex
\* leaves E strictly shorter, a round returns success without changing the
\* PSLG exactly when no vertex is incident to exactly two edges, and the loop
\* never reaches the cap on the rounds.
C14_AttackTerminates ==
  /\ [](pc = "attack" => iter < MaxIter)
  /\ [][(pc = "attack") =>
          /\ pc' \in {"attack", "copy", "failed"}
          /\ (pc' = "attack") => Len(pslg'.E) < Len(pslg.E)
          /\ (pc' = "copy") <=> ~HasDegreeTwo(pslg)
          /\ (pc' = "copy") => (result' = SUCCESS /\ pslg' = pslg /\ tri' = tri)
       ]_vars

\* attack_all_vertices has returned success after at least two attacks
C14_Witness ==
  /\ pc = "copy"
  /\ last.op = "attack_all_vertices"
  /\ result = SUCCESS
  /\ iter >= 3
  /\ ~HasDegreeTwo(pslg)

\* the directions of [a, b] and [c, d] are parallel in the xy-plane within the
\* tolerance: the determinant of the two directions is below EPSILON
ParallelXY(a, b, c, d) ==
  FabsLtEps(RSub(RMul(RSub(b[1], a[1]), RSub(d[2], c[2])),
                 RMul(RSub(b[2], a[2]), RSub(d[1], c[1]))))

\* the call of isect has returned; both segments have two distinct end points
\* and the four points lie in one plane z = const
PlanarPair ==
  /\ pc = "returned"
  /\ ~SameXY(isect.a, isect.b) /\ ~SameXY(isect.c, isect.d)
  /\ isect.a[3] = isect.b[3] /\ isect.b[3] = isect.c[3] /\ isect.c[3] = isect.d[3]

\* C15: for two non-degenerate segments in one plane z = const,
\* intersecting_segments returns 1 exactly when the segments are not parallel
\* (the determinant of their directions is not below EPSILON) and have a
\* common point, end points included; it then writes a point of both
\* segments, in that plane, to out; for parallel segments, collinear
\* overlapping ones included, it returns 0.
C15_Intersection ==
  PlanarPair =>
    /\ isect.ret \in {0, 1}
    /\ (isect.ret = 1) <=>
         /\ ~ParallelXY(isect.a, isect.b, isect.c, isect.d)
         /\ SegmentsMeet(isect.a, isect.b, isect.c, isect.d)
    /\ (isect.ret = 1) =>
         /\ OnSegment(isect.out, isect.a, isect.b)
         /\ OnSegment(isect.out, isect.c, isect.d)
         /\ isect.out[3] = isect.a[3]
    /\ ParallelXY(isect.a, isect.b, isect.c, isect.d) => isect.ret = 0

\* 1 is returned for two segments that only touch, at an end point of [c, d]
\* inside [a, b], in the plane z = 1
C15_Witness ==
  /\ PlanarPair
  /\ isect.ret = 1
  /\ isect.a[3] = RInt(1)
  /\ InsideSegment(isect.c, isect.a, isect.b)
  /\ isect.out = isect.c

\* the bowtie [(0,0,0), (1,1,0), (1,0,0), (0,1,0)] and the crossing point of
\* its edges (0,0)-(1,1) and (1,0)-(0,1)
Bowtie ==
  [vertices |-> << <<RInt(0), RInt(0), RInt(0)>>, <<RInt(1), RInt(1), RInt(0)>>,
                   <<RInt(1), RInt(0), RInt(0)>>, <<RInt(0), RInt(1), RInt(0)>> >>,
   fd |-> "fd"]

BowtieCentre == <<Rat(1, 2), Rat(1, 2), RInt(0)>>

\* twice the sum of the absolute areas of the first k triangles of t
RECURSIVE SumAbsTriArea2(_, _)
SumAbsTriArea2(t, k) ==
  IF k = 0 THEN RInt(0)
  ELSE RAdd(SumAbsTriArea2(t, k - 1), RAbs(TriArea2(t[k].v)))

\* split_entirely has inserted exactly one vertex, the crossing point
BowtieSplit == SplitReturned => pslg.V = Append(Bowtie.vertices, BowtieCentre)

\* C16 (as amended): for the bowtie, split_entirely inserts exactly one new
\* vertex, at (0.5, 0.5, 0), and generate_triangulation outputs exactly three
\* triangles whose absolute areas sum to 0.5.
C16_BowtieThree ==
  (poly = Bowtie /\ fail = NoFail) =>
    /\ BowtieSplit
    /\ (pc = "done") =>
         /\ Len(out) = 3
         /\ REq(SumAbsTriArea2(out, Len(out)), RInt(1))

\* C16 (as stated): for the bowtie, split_entirely inserts exactly one new
\* vertex, at (0.5, 0.5, 0), and generate_triangulation outputs exactly four
\* triangles whose absolute areas sum to 0.5.
C16_BowtieFour ==
  (poly = Bowtie /\ fail = NoFail) =>
    /\ BowtieSplit
    /\ (pc = "done") =>
         /\ Len(out) = 4
         /\ REq(SumAbsTriArea2(out, Len(out)), RInt(1))

\* generate_triangulation has returned for the bowtie; one of its triangles
\* has area zero
C16_Witness ==
  /\ poly = Bowtie
  /\ pc = "done"
  /\ result = SUCCESS
  /\ \E k \in 1..Len(out) : Sign(TriArea2(out[k].v)) = 0

\* C17: for every simple polygon of n >= 3 vertices generate_triangulation
\* succeeds, split_entirely returns after one round that splits nothing (the
\* PSLG is the one generate_pslg built, and V stays so to the end), exactly
\* n - 2 triangles are output, and the PSLG is left with no vertex incident to
\* exactly two edges.
C17_SimplePolygon ==
  (Simple(poly) /\ fail = NoFail) =>
    /\ pc # "failed"
    /\ SplitReturned => (pslg = generate_pslg(poly) /\ iter = 1)
    /\ (pc \in {"create", "attack", "copy", "done"}) => pslg.V = poly.vertices
    /\ (pc = "done") =>
         /\ result = SUCCESS
         /\ Len(out) = Len(poly.vertices) - 2
         /\ ~HasDegreeTwo(pslg)

\* generate_triangulation has returned three triangles for the arrow pentagon
C17_Witness ==
  /\ poly = ArrowPentagon
  /\ Simple(poly)
  /\ pc = "done"
  /\ Len(out) = 3
  /\ pslg.V = poly.vertices

\* the PSLG split_entirely returns for face i of the polyhedron ph
FaceSplit(ph, i) == split_entirely(generate_pslg(FaceRaw(ph, i)), NoFail)

\* face i (0-based) of the unit cube is perpendicular to the xy-plane
CubeSideFace(i) == i \in 2..5

\* C18: for the unit cube triangulate_polyhedron succeeds and outputs exactly
\* 12 triangles, 2 for each face, and split_entirely splits nothing on the four
\* faces perpendicular to the xy-plane.
C18_UnitCube ==
  (polyhedron = UnitCube /\ fail = NoFail) =>
    /\ pc # "failed"
    /\ \A i \in 1..Len(tris) : Len(tris[i]) = 2
    /\ (pc = "faces" /\ face > 0 /\ CubeSideFace(face - 1)) =>
         \E s \in {FaceSplit(polyhedron, face - 1)} :
           /\ s.result = SUCCESS
           /\ s.pslg = generate_pslg(FaceRaw(polyhedron, face - 1))
    /\ (pc = "merged") => (result = SUCCESS /\ Len(out) = 12)

\* triangulate_polyhedron has returned 12 triangles for the unit cube
C18_Witness ==
  /\ polyhedron = UnitCube
  /\ pc = "merged"
  /\ result = SUCCESS
  /\ Len(out) = 12

\* the error code an allocation site sets when its allocation fails
SiteCode(site) ==
  CASE site = "split_vertex" -> PSLG_EDGE_SPLIT_VERTEX_REALLOC_ERROR
    [] site = "split_edge" -> PSLG_EDGE_SPLIT_EDGE_REALLOC_ERROR
    [] site = "dedup_vertex" -> DEDUP_PSLG_VERTEX_REALLOC_ERROR
    [] site = "dedup_edge" -> DEDUP_PSLG_EDGES_REALLOC_ERROR
    [] site = "add_triangle" -> ADDING_TRI_REALLOC_FAILURE
    [] site = "attack_temp" -> PSLG_ATTACK_TEMP_EDGES_MALLOC_ERROR
    [] site = "malloc0_null" -> PSLG_ATTACK_TEMP_EDGES_MALLOC_ERROR
    [] site = "attack_edge" -> PSLG_ATTACK_EDGE_REALLOCATION_ERROR

\* The failing site of a run, found by following the run in which nothing
\* fails up to the first allocation that is made at a site of f: the code
\* that site sets, or 0 when no allocation of the run is made at a site of f.
RECURSIVE RaisedInDedupEdge(_, _)
RaisedInDedupEdge(g, f) ==
  LET m == dedup_pslg_one_edge(g, NoFail)
  IN  IF m.result = NOOP THEN 0
      ELSE IF "dedup_edge" \in f /\ REALIGN(Len(g.E), Len(g.E) - 1)
           THEN SiteCode("dedup_edge")
      ELSE RaisedInDedupEdge(m.pslg, f)

RECURSIVE RaisedInDedupVertex(_, _)
RaisedInDedupVertex(g, f) ==
  LET m == dedup_pslg_one_vertex(g, NoFail)
  IN  IF m.result = NOOP THEN RaisedInDedupEdge(g, f)
      ELSE IF "dedup_vertex" \in f /\ REALIGN(Len(g.V), Len(g.V) - 1)
           THEN SiteCode("dedup_vertex")
      ELSE RaisedInDedupVertex(m.pslg, f)

RECURSIVE RaisedInSplit(_, _)
RaisedInSplit(g, f) ==
  LET r == remove_single_edge(g, NoFail)
      p == split_entirely_pass(g, NoFail)
      d == RaisedInDedupVertex(r.pslg, f)
  IN  IF r.result = NOOP THEN 0
      ELSE IF "split_vertex" \in f /\ REALIGN(Len(g.V), Len(g.V) + 1)
           THEN SiteCode("split_vertex")
      ELSE IF "split_edge" \in f /\ REALIGN(Len(g.E), Len(g.E) + 2)
           THEN SiteCode("split_edge")
      ELSE IF d # 0 THEN d
      ELSE IF p.exit = "loop" THEN RaisedInSplit(p.pslg, f)
      ELSE 0

RECURSIVE RaisedInAttack(_, _, _, _)
RaisedInAttack(g, t, fd, f) ==
  LET a == attack_single_vertex(g, t, fd, NoFail)
  IN  IF a.result = NOOP THEN 0
      ELSE IF "add_triangle" \in f /\ REALIGN(Len(t), Len(t) + 1)
           THEN SiteCode("add_triangle")
      ELSE IF "attack_temp" \in f THEN SiteCode("attack_temp")
      ELSE IF "malloc0_null" \in f /\ Len(a.pslg.E) = 0
           THEN SiteCode("malloc0_null")
      ELSE IF "attack_edge" \in f /\ REALIGN(Len(g.E), Len(a.pslg.E))
           THEN SiteCode("attack_edge")
      ELSE RaisedInAttack(a.pslg, a.tri, fd, f)

RaisedIn(pr, f) ==
  LET s == RaisedInSplit(generate_pslg(pr), f)
  IN  IF s # 0 THEN s
      ELSE RaisedInAttack(split_entirely(generate_pslg(pr), NoFail).pslg, <<>>,
                          pr.fd, f)

\* C19: when an allocation inside splitPSLG, the dedup steps or attack_vertex
\* fails while a face is triangulated, split_entirely (when the site is in
\* it), generate_triangulation and triangulate_polyhedron all return the code
\* set at the failing site, and triangulate_polyhedron returns an error from a
\* face only in that case.
C19_ErrorPropagates ==
  [][(pc = "faces" /\ face < Len(polyhedron.faces)) =>
       \A pr \in {FaceRaw(polyhedron, face)} :
         \A c \in {RaisedIn(pr, fail)} :
           \A c0 \in {RaisedIn(pr, fail \cup {"malloc0_null"})} :
             /\ (c # 0) =>
                  /\ pc' = "failed"
                  /\ result' \in {c, c0}
                  /\ generate_triangulation(pr, <<>>, fail).result = c
             /\ \A s \in {RaisedInSplit(generate_pslg(pr), fail)} :
                  (s # 0) => split_entirely(generate_pslg(pr), fail).result = s
             /\ (pc' = "failed") => (result' \in {c, c0} /\ result' # 0)
             /\ (c = 0) => generate_triangulation(pr, <<>>, fail).result = SUCCESS
    ]_vars

\* triangulate_polyhedron has returned the code of a failed reallocation of
\* the dedup steps, raised while its second face was triangulated
C19_Witness ==
  /\ pc = "failed"
  /\ face = 1
  /\ last.op = "generate_triangulation"
  /\ fail \in {{"dedup_vertex"}, {"dedup_edge"}}
  /\ result = SiteCode(CHOOSE s \in fail : TRUE)

\* C20: generate_triangulation never decreases the triangle count of the
\* Triangulation it writes into and never alters the triangles already in it;
\* called with an output that holds k triangles and a face that yields n
\* triangles, it leaves the output holding k + n triangles, the k old ones
\* first.
C20_AppendOnly ==
  [][/\ IsPrefix(out, out')
     /\ (pc = "copy" /\ pc' = "done") => out' = out \o tri
    ]_vars

\* a call of a core operation has returned and left its status in *result
CallReturned == pc \in {"ops", "failed"} /\ last.op # "none"

\* C21: for every status value a core operation returns, STATUS_TYPE (the top
\* byte of the 32-bit value) is the class of the outcome: SUCCESS for the
\* value returned on success, NOOP for the value returned as no-op by
\* splitPSLG, the dedup steps and attack_vertex, FATAL for every error code.
C21_StatusClass ==
  CallReturned =>
    /\ (result = SUCCESS) => STATUS_TYPE(result) = SUCCESS
    /\ (result = NOOP) => STATUS_TYPE(result) = NOOP
    /\ (result \notin {SUCCESS, NOOP}) => STATUS_TYPE(result) = FATAL

\* an endpoint of edge e1 and an endpoint of edge e2 are equal within the
\* tolerance, whatever their indices in V
SharePosition(g, e1, e2) ==
  \E m \in 1..2, n \in 1..2 :
    equal_vec3(At(g.V, At(g.E, e1)[m]), At(g.V, At(g.E, e2)[n]))

\* the intersector reports no crossing for the edges e1 and e2
NoCrossing(g, e1, e2) ==
  intersecting_segments(EdgeA(g, e1), EdgeB(g, e1), EdgeA(g, e2), EdgeB(g, e2)).hit = 0

\* C24: splitPSLG(e1, e2) returns no-op and leaves V and E unchanged whenever
\* an endpoint of e1 and an endpoint of e2 are at the same position (within
\* the tolerance, at equal or different indices of V), and whenever the
\* intersector reports no crossing.
C24_SplitNoop ==
  [][(last'.op = "splitPSLG" /\ pc = "ops") =>
       ((SharePosition(pslg, last'.a, last'.b) \/ NoCrossing(pslg, last'.a, last'.b))
          => (result' = NOOP /\ pslg' = pslg))]_vars

\* C27: attack_vertex(i) returns no-op and leaves V, E and the triangulation
\* unchanged whenever the number of edges incident to i is not exactly 2 (0, 1,
\* 3 or more); it returns success only when that number is exactly 2.
C27_AttackNoop ==
  [][(last'.op = "attack_vertex" /\ pc = "ops") =>
       /\ (DegreeOf(pslg, last'.a) # 2) =>
            (result' = NOOP /\ pslg' = pslg /\ tri' = tri)
       /\ (result' = SUCCESS) => DegreeOf(pslg, last'.a) = 2
    ]_vars

\* attack_vertex has returned no-op for a vertex with four incident edges, the
\* vertex a split has just inserted
C27_Witness ==
  /\ last.op = "attack_vertex"
  /\ result = NOOP
  /\ ops = 2
  /\ last.a = Len(poly.vertices)
  /\ DegreeOf(pslg, last.a) = 4

\* the vertex indices that no position of E holds
Isolated(g) == {v \in 0..Len(g.V) - 1 : DegreeOf(g, v) = 0}

\* C28: attack_vertex and attack_all_vertices never change V (the vertex count
\* and every vertex position stay as they were, whatever is returned); after a
\* successful attack_vertex(i) no edge has i as an endpoint; a vertex without
\* edges stays without edges, so it is never attacked again, and unless an
\* allocation fails attack_all_vertices emits at most one triangle for each
\* vertex that had an edge.
C28_AttackKeepsV ==
  [][(pc = "ops" /\ last'.op \in {"attack_vertex", "attack_all_vertices"}) =>
       /\ pslg'.V = pslg.V
       /\ (last'.op = "attack_vertex" /\ result' = SUCCESS) =>
            DegreeOf(pslg', last'.a) = 0
       /\ Isolated(pslg) \subseteq Isolated(pslg')
       /\ ~IS_AN_ERROR(result') =>
            /\ Len(tri') - Len(tri) <= Len(pslg.V) - Cardinality(Isolated(pslg))
            /\ Len(tri') - Len(tri) <= Cardinality(Isolated(pslg') \ Isolated(pslg))
    ]_vars

\* attack_all_vertices has returned success and emitted triangles on a PSLG
\* in which an earlier successful attack_vertex had left a vertex without
\* edges; V is still the vertex sequence of the polygon
C28_Witness ==
  /\ last.op = "attack_all_vertices"
  /\ result = SUCCESS
  /\ ops = 2
  /\ Len(tri) >= 2
  /\ pslg.V = poly.vertices
  /\ Len(pslg.V) >= 4
  /\ Cardinality(Isolated(pslg)) >= 2

\* the positions of E that hold the vertex index i
PositionsOf(g, i) == {k \in EdgeIdx(g) : At(g.E, k)[1] = i \/ At(g.E, k)[2] = i}

\* the neighbour of i along the lowest (highest) position of E that holds i
NeighbourA(g, i) == OtherEnd(At(g.E, SetMin(PositionsOf(g, i))), i)
NeighbourB(g, i) == OtherEnd(At(g.E, SetMax(PositionsOf(g, i))), i)

\* C25 (as amended): a successful attack_vertex(i) whose incident edges lead
\* to the neighbours a (via the lower-indexed edge) and b (via the
\* higher-indexed edge) appends the triangle with vertices in the order
\* (V[a], V[b], V[i]) and with the FaceData of the PSLG's polygon.
C25_TriangleABI ==
  [][(last'.op = "attack_vertex" /\ pc = "ops" /\ result' = SUCCESS) =>
       \A i \in {last'.a} :
         tri' = Append(tri, [v |-> <<At(pslg.V, NeighbourA(pslg, i)),
                                     At(pslg.V, NeighbourB(pslg, i)),
                                     At(pslg.V, i)>>,
                             fd |-> poly.fd])
    ]_vars

\* C25 (as stated): a successful attack_vertex(i) with neighbours a and b
\* appends the triangle with vertices in the order (V[a], V[i], V[b]) and with
\* the FaceData of the PSLG's polygon.
C25_TriangleAIB ==
  [][(last'.op = "attack_vertex" /\ pc = "ops" /\ result' = SUCCESS) =>
       \A i \in {last'.a} :
         tri' = Append(tri, [v |-> <<At(pslg.V, NeighbourA(pslg, i)),
                                     At(pslg.V, i),
                                     At(pslg.V, NeighbourB(pslg, i))>>,
                             fd |-> poly.fd])
    ]_vars

\* a successful attack_vertex(i) has appended a triangle of non-zero area
\* whose third vertex is V[i]
C25_Witness ==
  /\ last.op = "attack_vertex"
  /\ result = SUCCESS
  /\ Len(tri) >= 1
  /\ Sign(TriArea2(tri[Len(tri)].v)) # 0
  /\ tri[Len(tri)].v[3] = At(pslg.V, last.a)
  /\ tri[Len(tri)].fd = poly.fd

\* C30: a single PSLG-mutating step that returns a fatal status is atomic:
\* when splitPSLG, dedup_pslg_a_vertex, dedup_pslg_a_edge or attack_vertex
\* fails on an allocation, the vertex sequence, the edge list, both counts and
\* the triangulation are exactly as they were before the call.
C30_FatalIsAtomic ==
  [][(pc = "ops"
        /\ last'.op \in {"splitPSLG", "dedup_pslg_a_vertex", "dedup_pslg_a_edge",
                         "attack_vertex"}
        /\ STATUS_TYPE(result') = FATAL) =>
       (pslg'.V = pslg.V /\ pslg'.E = pslg.E /\ tri' = tri)]_vars

\* the call of isect has returned and exactly one of its two segments is a
\* point (its end points equal in x and y)
OnePoint ==
  /\ pc = "returned"
  /\ SameXY(isect.a, isect.b) # SameXY(isect.c, isect.d)

\* C26: when exactly one of the two segments given to intersecting_segments
\* is a point, 1 is returned if and only if that point lies on the other
\* segment, whatever the orientation of the other segment and whichever pair
\* of arguments is the point; when both segments are points 0 is returned.
C26_PointOnSegment ==
  /\ OnePoint =>
       (isect.ret = 1) <=>
          IF SameXY(isect.a, isect.b) THEN OnSegment(isect.a, isect.c, isect.d)
          ELSE OnSegment(isect.c, isect.a, isect.b)
  /\ (pc = "returned" /\ SameXY(isect.a, isect.b) /\ SameXY(isect.c, isect.d)) =>
       isect.ret = 0

\* C29: whichever allocation inside generate_triangulation fails (in
\* generate_pslg, split_entirely, create_pslg_triangulation,
\* attack_all_vertices or the add_triangle of the copy loop),
\* generate_triangulation returns with a fatal status and never reads through
\* a null pointer; in particular the null PSLGTriangulation returned by a
\* failed create_pslg_triangulation is not dereferenced by the cleanup.
C29_FatalWithoutNullDeref ==
  /\ pc # "crashed"
  /\ last.exit # "null_deref"
  /\ pc = "failed" => STATUS_TYPE(result) = FATAL

\* 2^BIT_IGNORE, the size of a bucket
Bucket == Pow2Rec(BIT_IGNORE)

\* max(1, n rounded up to a multiple of the bucket size)
AlignedLength(n) == IF n = 0 THEN 1 ELSE ((n + Bucket - 1) \div Bucket) * Bucket

\* the events of the last call
LastEvents == {cap.ev[k] : k \in 1..Len(cap.ev)}

\* the reallocations of a non-empty array made for an append by the last call:
\* of V or E in splitPSLG, of the triangles in the add_triangle of attack_vertex
AppendReallocs ==
  {e \in LastEvents :
     /\ e.kind = "realloc"
     /\ e.count >= 1
     /\ \/ last.op = "splitPSLG"
        \/ last.op = "attack_vertex" /\ e.arr = "T"}

\* C22 (amended): a reallocation made for an append to a non-empty array asks
\* for the aligned length of the new count, which is the previous length plus
\* one bucket of 16; that is twice the previous length only from 16.
C22_NextBucket ==
  \A e \in AppendReallocs :
    /\ e.to = e.from + Bucket
    /\ (e.to = 2 * e.from) <=> (e.from = Bucket)

\* C22 as stated: a reallocation made for an append to a non-empty array
\* doubles the allocated length.
C22_Doubling ==
  \A e \in AppendReallocs : e.to = 2 * e.from

\* splitPSLG or attack_vertex has appended to a full array of two buckets
C22_Witness ==
  /\ pc = "ops"
  /\ result = SUCCESS
  /\ \E e \in AppendReallocs : e.from = 2 * Bucket /\ e.count = 2 * Bucket

\* C23: after generate_pslg, splitPSLG, a dedup step or attack_vertex has
\* returned without a fatal error, the allocated length of V is the aligned
\* length of |V| and that of E the aligned length of |E| (max(1, the count
\* rounded up to a multiple of 16)); every reallocation the call made changed
\* the bucket, and every index it wrote into V or E was below the length
\* allocated at that moment.
C23_AlignedCapacity ==
  (pc = "ops" /\ ~IS_AN_ERROR(result)) =>
     /\ cap.V = AlignedLength(Len(pslg.V))
     /\ cap.E = AlignedLength(Len(pslg.E))
     /\ \A e \in LastEvents :
          /\ e.kind = "realloc" => e.from # e.to
          /\ (e.kind = "write" /\ e.arr \in {"V", "E"}) =>
                \A i \in e.idx : 0 <= i /\ i < e.from

\* dedup_pslg_a_vertex has removed the vertex that splitPSLG had appended to a
\* full bucket: V was reallocated to the smaller length and the edges that
\* ended at the removed vertex were rewritten
C23_Witness ==
  /\ pc = "ops"
  /\ result = SUCCESS
  /\ last.op = "dedup_pslg_a_vertex"
  /\ Len(pslg.V) = Bucket
  /\ \E e \in LastEvents : e.kind = "realloc" /\ e.arr = "V" /\ e.to < e.from
  /\ \E e \in LastEvents : e.kind = "write" /\ e.arr = "E"

=============================================================================
